---- MODULE Spec2Model ----
(***************************************************************************)
(* Model of the warp2api proxy (justincnn/warp2api-full).                  *)
(*                                                                         *)
(* The module holds several specifications, one per subsystem:             *)
(*   Spec      the OpenAI-compatible front end: one request through        *)
(*             chat_completions / anthropic_messages, the streaming        *)
(*             translator stream_openai_sse with its recovery driver, and  *)
(*             the non-streaming path (src/protobuf2openai/router.py,      *)
(*             src/protobuf2openai/sse_transform.py)                       *)
(*   SpecAnth  the Anthropic SSE translator stream_anthropic_sse           *)
(*   SpecNorm  the history normalizer and the request assembler            *)
(*   SpecApi   the upstream streamer of the bridge (api_client.py)         *)
(*   SpecPool  the credential pool (warp_token_pool.py)                    *)
(* Every specification constrains all variables; the variables of the      *)
(* other subsystems stay at their initial values.                          *)
(***************************************************************************)
EXTENDS Integers, Sequences, FiniteSets, TLC

VARIABLES
    \* ---- front end (router.py, sse_transform.py)
    pc,                 \* position of the request handler / generator
    endpoint,           \* "chat" (/v1/chat/completions) or "messages" (/v1/messages)
    stream,             \* req.stream
    retry_count,        \* stream_openai_sse parameter retry_count
    restricted_tools,   \* stream_openai_sse parameter restricted_tools
    packet,             \* the packet of the current stream_openai_sse invocation
    origPacket,         \* the packet the request assembler built (outer frame)
    sent,               \* packets POSTed to the bridge, in order
    out,                \* SSE frames emitted to the client, in order
    tool_calls_emitted, \* local of _process_sse_response_lines
    nlines,             \* upstream events consumed by the current attempt
    httpStatus,         \* HTTP status of the response (0: none yet)
    lastErr,            \* the recoverable error that ended the last attempt
    bridge_resp,        \* non-streaming: what the collected events of the response hold
    last_status,        \* status of the latest POST to the bridge (0: none yet)
    upstream,           \* history: the upstream events consumed, over all attempts
    recov,              \* history: recovery retries made, per kind, and exhaustion
    \* ---- Anthropic SSE translator (anthropic_sse_transform.py)
    an_pc,              \* "start", "loop" (inside the async for) or "done"
    an_in,              \* history: the OpenAI chunks consumed so far
    an_out,             \* Anthropic events emitted, in order
    content_index,      \* local content_index
    has_text_content,   \* local has_text_content
    has_tool_calls,     \* local has_tool_calls
    current_tool_call,  \* local current_tool_call is not None
    stream_completed,   \* local stream_completed
    an_late,            \* history: chunks of the wrapped stream left after the end
    \* ---- history normalizer and request assembler (reorder.py, packets.py)
    nm_pc,              \* "request", "normalized" or "built"
    messages,           \* req.messages
    history,            \* the normalized history
    inputs,             \* packet["input"]["user_inputs"]["inputs"]
    task_messages,      \* packet["task_context"]["tasks"][0]["messages"]
    \* ---- upstream streamer (api_client.py, pool_auth.py)
    ap_pc,              \* position in _send_protobuf_to_warp_api_parsed_impl
    attempt,            \* the loop variable of "for attempt in range(2)"
    session,            \* the session in use (0: none)
    held,               \* broker sessions acquired by this call and not released
    blocked,            \* sessions reported through mark_blocked
    statuses,           \* history: the status of every upstream POST, in order
    parsed_events,      \* local parsed_events
    ap_result,          \* how the call ended
    wrap,               \* send_protobuf_to_warp_api_parsed: which call of the
                        \* implementation runs, and history of the exchange
    agen_out,           \* frames _agen of /api/warp/send_stream_sse has yielded
    \* ---- credential pool (warp_token_pool.py)
    tokens,             \* self.tokens: the TokenInfo entries, in order
    lock,               \* self.lock: "free", or the operation that holds it
    started,            \* "no", "filling" (start() awaits _fill_pool) or "running"
    health_tasks,       \* _ensure_pool_health tasks created and not yet run
    creating,           \* _create_and_add_token tasks waiting for the broker
    next_token,         \* tokens the broker has delivered so far
    now,                \* time.time(), advanced by every client call
    stats,              \* self.stats
    last_get,           \* history: what the latest get_valid_token returned
    last_rate,          \* history: what the latest handle_rate_limit returned, and
                        \* the tokens reported to handle_rate_limit so far
    \* ---- hint injection of the recovery driver, applied repeatedly
    inj_pc,             \* "choose" (no packet yet) or "apply"
    inj_input,          \* the packet before any injection
    inj_packet,         \* the packet after the injections applied so far
    inj_prev,           \* the packet before the latest injection
    inj_log,            \* history: the injections applied, in order
    \* ---- request handler (warp_request_handler.py)
    rh_pc,              \* where make_request stands: "idle", "refresh", "send", "switch"
    current_token,      \* self.current_token (0: None)
    rh_attempt,         \* attempt, the loop variable of make_request
    rh_sent,            \* history: the token and the status of every request of the call
    rh_result,          \* how the call ended
    \* ---- account rotation (warp_token_manager.py, MultiAccountTokenService)
    current_index,      \* self.current_index
    failed_accounts,    \* self.failed_accounts: indices of the accounts marked failed
    callers,            \* the acquire_fresh_token calls in progress: where each
                        \* stands, its local account (-1: unbound) and attempt
    ac_last,            \* history: the latest get_next_account call
    ac_prev,            \* history: the get_next_account call before it
    \* ---- send_protobuf_to_warp_api (api_client.py)
    sp_pc,              \* "acquire", "post", "returned" or "raised"
    sp_attempt,         \* attempt, the loop variable
    sp_session_id,      \* _pool_session_id (0: None)
    sp_held,            \* the sessions acquired and not released, by their jwt
    error_content,      \* local error_content ("unbound" before its first assignment)
    sp_statuses,        \* history: the status and the body of every POST, in order
    sp_result           \* what the call returned

pxVars == <<pc, endpoint, stream, upstream, retry_count, restricted_tools, packet, origPacket,
            sent, out, tool_calls_emitted, nlines, httpStatus, lastErr, bridge_resp,
            last_status, recov>>

anVars == <<an_pc, an_in, an_out, content_index, has_text_content, has_tool_calls,
            current_tool_call, stream_completed, an_late>>

nmVars == <<nm_pc, messages, history, inputs, task_messages>>

apVars == <<ap_pc, attempt, session, held, blocked, statuses, parsed_events, ap_result,
            wrap, agen_out>>

plVars == <<tokens, lock, started, health_tasks, creating, next_token, now, stats,
            last_get, last_rate>>

ijVars == <<inj_pc, inj_input, inj_packet, inj_prev, inj_log>>

rhVars == <<rh_pc, current_token, rh_attempt, rh_sent, rh_result>>

acVars == <<current_index, failed_accounts, callers, ac_last, ac_prev>>

spVars == <<sp_pc, sp_attempt, sp_session_id, sp_held, error_content, sp_statuses,
            sp_result>>

vars == <<pxVars, anVars, nmVars, apVars, plVars, ijVars, rhVars, acVars, spVars>>

\* the variables outside each subsystem
nonPx == <<anVars, nmVars, apVars, plVars, ijVars, rhVars, acVars, spVars>>
nonAn == <<pxVars, nmVars, apVars, plVars, ijVars, rhVars, acVars, spVars>>
nonNm == <<pxVars, anVars, apVars, plVars, ijVars, rhVars, acVars, spVars>>
nonAp == <<pxVars, anVars, nmVars, plVars, ijVars, rhVars, acVars, spVars>>
nonPl == <<pxVars, anVars, nmVars, apVars, ijVars, rhVars, acVars, spVars>>
nonIj == <<pxVars, anVars, nmVars, apVars, plVars, rhVars, acVars, spVars>>
nonRh == <<pxVars, anVars, nmVars, apVars, plVars, ijVars, acVars, spVars>>
nonAc == <<pxVars, anVars, nmVars, apVars, plVars, ijVars, rhVars, spVars>>
nonSp == <<pxVars, anVars, nmVars, apVars, plVars, ijVars, rhVars, acVars>>

----------------------------------------------------------------------------
(* Bounds of the model *)

\* upstream events one request consumes, over all its attempts, before the
\* upstream stream must end
MaxEvents == 3

\* OpenAI chunks one Anthropic translation consumes before its input must end
MaxChunks == 4

\* messages of one request
MaxHist == 4

\* upstream events one exchange of the upstream streamer reads
MaxParsed == 3

\* client calls of the pool (get_valid_token, handle_rate_limit)
MaxCalls == 2

\* tokens the broker issues (more than pool_size, so that the pool can be
\* offered more tokens than it is meant to hold)
MaxTokens == 4

\* token strings the request handler can be handed
RhTokens == 2

\* configured Cloudflare accounts: len(self.accounts)
NumAccounts == 3

\* concurrent callers of acquire_fresh_token
MaxCallers == 2

\* text fragments of the query of a packet the hint injection is applied to
MaxQuery == 2

\* hint injections applied to one packet
MaxApplications == 3

\* background tasks of one kind in flight; a task beyond the bound is one
\* whose token creation fails, which leaves the pool as it is
MaxTasks == 2

----------------------------------------------------------------------------
(* Front end: packets and recovery hints *)

NoTool == "none"

\* tool names an internal_error message can name (regex group 1), or none
ErrTools == {"read_files", NoTool}

\* The final input of a packet: its kind and, for a user_query, the query as a
\* sequence of text fragments.  "SYS" stands for the marker "[系统自动恢复]",
\* "AUTO" for "[自动恢复]", "CONT" for "继续任务".
Packet(last, query) == [last |-> last, query |-> query]

Range(s) == {s[i] : i \in DOMAIN s}

\* the recovery prompt appended after an internal_error
RecoveryPrompt(tool) == IF tool # NoTool THEN <<"SYS", tool>> ELSE <<"SYS">>

\* a hint injection that does not look for the marker
InjectInternalAlways(p, tool) ==
    IF p.last = "user_query"
    THEN [p EXCEPT !.query = p.query \o RecoveryPrompt(tool)]
    ELSE p

\* the hint injection of the internal_error handler, on a deep copy
InjectInternal(p, tool) ==
    IF p.last = "user_query" /\ "SYS" \notin Range(p.query)
    THEN [p EXCEPT !.query = p.query \o RecoveryPrompt(tool)]
    ELSE p

\* the hint injection of the llm_unavailable handler, on a deep copy
InjectLLM(p) ==
    IF p.last = "user_query" /\ "CONT" \notin Range(p.query) /\ "AUTO" \notin Range(p.query)
    THEN [p EXCEPT !.query = p.query \o <<"AUTO">>]
    ELSE p

\* packets the request assembler hands to the front end
Packets == { Packet("user_query", <<"q">>),
             Packet("tool_call_result", <<>>),
             Packet("none", <<>>) }

----------------------------------------------------------------------------
(* Front end: SSE frames of the OpenAI stream *)

\* a frame of the OpenAI stream.  att and n are history: the invocation
\* (retry_count) and the position in its upstream stream of the event the
\* frame was produced for; a frame the driver emits on its own has -1 and 0
Chunk(kind, text) == [kind |-> kind, text |-> text, att |-> -1, n |-> 0]

\* the frames fs, produced for the n-th upstream event of invocation att
ProducedFor(fs, att, n) == [i \in DOMAIN fs |-> [fs[i] EXCEPT !.att = att, !.n = n]]

RoleChunk == Chunk("role", "")
ContentChunk(t) == Chunk("content", t)
ToolCallsChunk == Chunk("tool_calls", "")
FinishChunk(reason) == Chunk("finish", reason)
DoneFrame == Chunk("DONE", "")

\* the terminating chunk of a clean finished event
DoneChunk(emitted) == FinishChunk(IF emitted THEN "tool_calls" ELSE "stop")

\* an "except Exception" handler that forgets the [DONE] frame
ErrorFramesWithoutDone == <<FinishChunk("error")>>

\* frames of the handler "except Exception"
ErrorFrames == <<FinishChunk("error"), DoneFrame>>

\* frames of the exhausted-retry branch of a recoverable handler
ExhaustedFrames == <<ContentChunk("ERRTEXT"), FinishChunk("stop"), DoneFrame>>

\* the frame that ends _process_sse_response_lines
EndOfLinesFrames == <<DoneFrame>>

\* a recovery handler that emits no notice
NoticeFramesMissing == <<>>

\* the "auto-recovering" notice chunk of a recovery handler
NoticeFrames == <<ContentChunk("NOTICE")>>

\* the opening chunk on every invocation
OpeningFramesOnEveryInvocation(rc) == <<RoleChunk>>

\* the opening chunk, only on the initial invocation
OpeningFrames(rc) == IF rc = 0 THEN <<RoleChunk>> ELSE <<>>

\* a recovery driver that counts the recoveries of each kind on their own
RecoveriesSoFarOfKind(total, ofKind) == ofKind

\* the retry_count a recoverable handler consults: the parameter of the
\* invocation, which every recovery of either kind has raised by one
RecoveriesSoFar(total, ofKind) == total

\* a recovery driver that allows a second recovery re-send
RetryExhaustedAtTwo(rc) == rc >= 2

\* the retry bound of the recovery driver: retry_count >= 1 means exhausted
RetryExhausted(rc) == rc >= 1

----------------------------------------------------------------------------
(* The bridge: the frames of /api/warp/send_stream_sse *)

\* a frame of the bridge's SSE stream
BridgeFrame(kind, ev) == [kind |-> kind, ev |-> ev]

\* what _agen of /api/warp/send_stream_sse yields once
\* send_protobuf_to_warp_api_parsed has ended with result r and the events evs:
\* one frame per parsed event, the summary frame and [DONE]; for the 4-tuple
\* of an upstream HTTP error the summary frame alone (its response is the error
\* text, events_count 0); for an exception, or the 3-tuple returned when no
\* retry session is found (the unpacking raises), an error frame
RouteFrames(r, evs) ==
    CASE r = "ok" -> [k \in DOMAIN evs |-> BridgeFrame("event", evs[k])]
                     \o <<BridgeFrame("summary", "ok"), BridgeFrame("DONE", "")>>
      [] r = "http_error" ->
            <<BridgeFrame("summary", "http_error"), BridgeFrame("DONE", "")>>
      [] OTHER -> <<BridgeFrame("error", r), BridgeFrame("DONE", "")>>

----------------------------------------------------------------------------
(* Front end: the request handlers and stream_openai_sse *)

NoRecov == [internal |-> 0, llm |-> 0, exhausted |-> FALSE, postsAtExhaustion |-> 0,
            postsAtRecovery |-> 0, collected |-> <<>>]

\* a recovery handler that mutates the packet of the failed attempt in place
RecoveredInPlace(old, new) == [failed |-> new, retry |-> new]

\* "new_packet = copy.deepcopy(packet)" and the mutation of new_packet: what
\* the handler leaves in the packet of the failed attempt, and the packet of
\* the retry
Recovered(old, new) == [failed |-> old, retry |-> new]

PxInit ==
    /\ pc = "idle"
    /\ endpoint = "chat"
    /\ stream = FALSE
    /\ retry_count = 0
    /\ restricted_tools = {}
    /\ packet = Packet("none", <<>>)
    /\ origPacket = Packet("none", <<>>)
    /\ sent = <<>>
    /\ out = <<>>
    /\ tool_calls_emitted = FALSE
    /\ nlines = 0
    /\ httpStatus = 0
    /\ lastErr = "none"
    /\ bridge_resp = "none"
    /\ last_status = 0
    /\ upstream = <<>>
    /\ recov = NoRecov

\* the HTTP status of a streaming response: StreamingResponse(...) is returned
\* before the generator runs
StreamingStatus == 200

\* chat_completions / anthropic_messages up to the dispatch on req.stream.
\* Empty req.messages (or, for /v1/messages, a failed conversion) answers 400.
Receive(e, s, p, valid) ==
    /\ pc = "idle"
    /\ endpoint' = e
    /\ stream' = s
    /\ IF ~valid
       THEN /\ httpStatus' = 400
            /\ pc' = "done"
            /\ UNCHANGED <<packet, origPacket>>
       ELSE /\ packet' = p
            /\ origPacket' = p
            /\ httpStatus' = IF s THEN StreamingStatus ELSE 0
            /\ pc' = IF s THEN "enter" ELSE "ns_post"
    /\ UNCHANGED <<retry_count, restricted_tools, sent, out, tool_calls_emitted,
                   nlines, lastErr, bridge_resp, last_status, upstream, recov>>
    /\ UNCHANGED nonPx

\* the generator ends after the frames fs
Finish(fs) ==
    /\ out' = out \o fs
    /\ pc' = "done"

\* stream_openai_sse entry: count_packet_tokens, then the opening chunk.
\* count_packet_tokens builds the tiktoken encoder on first use and may raise;
\* the encoder is cached afterwards, so only the initial invocation can fail.
Enter(ok) ==
    /\ pc = "enter"
    /\ IF ok
       THEN /\ out' = out \o OpeningFrames(retry_count)
            /\ pc' = "post"
       ELSE /\ retry_count = 0
            /\ Finish(ErrorFrames)
    /\ tool_calls_emitted' = FALSE
    /\ nlines' = 0
    /\ UNCHANGED <<endpoint, stream, upstream, retry_count, restricted_tools, packet, origPacket,
                   sent, httpStatus, lastErr, bridge_resp, last_status, recov>>
    /\ UNCHANGED nonPx

\* what a POST to the bridge can answer; -1 stands for a transport exception
BridgeStatuses == {200, 429, 500, -1}

\* the first _do_stream() of an invocation
Post(status) ==
    /\ pc = "post"
    /\ sent' = Append(sent, packet)
    /\ last_status' = status
    /\ IF status = 200 THEN pc' = "lines" /\ out' = out
       ELSE IF status = 429 THEN pc' = "post2" /\ out' = out
       ELSE Finish(ErrorFrames)
    /\ UNCHANGED <<endpoint, stream, upstream, retry_count, restricted_tools, packet, origPacket,
                   tool_calls_emitted, nlines, httpStatus, lastErr, bridge_resp, recov>>
    /\ UNCHANGED nonPx

\* after a 429: /api/auth/refresh (its outcome is ignored), then the second
\* _do_stream(); _check_response_error raises on any non-200
Post2(status) ==
    /\ pc = "post2"
    /\ sent' = Append(sent, packet)
    /\ last_status' = status
    /\ IF status = 200 THEN pc' = "lines" /\ out' = out
       ELSE Finish(ErrorFrames)
    /\ UNCHANGED <<endpoint, stream, upstream, retry_count, restricted_tools, packet, origPacket,
                   tool_calls_emitted, nlines, httpStatus, lastErr, bridge_resp, recov>>
    /\ UNCHANGED nonPx

\* upstream events that do not end the attempt
\*   text         a text delta (append_to_message_content, agent_output, ...)
\*   tool_call    add_messages_to_task with a tool_call.call_mcp_tool
\*   todo         a tool_call_result carrying task data (TodoWrite chunk)
\*   reset        update_task_description (context reset notice)
\*   finished     a clean finished event
\* (init, an undecodable frame or an event without output yields nothing and
\* changes no local: the loop just continues, a stuttering step)
FlowEvents == {"text", "tool_call", "todo", "reset", "finished"}

\* a translation that yields nothing for a text delta
EventFramesDroppingText(ev, emitted) ==
    CASE ev = "tool_call" -> <<ToolCallsChunk>>
      [] ev = "todo"      -> <<ToolCallsChunk>>
      [] ev = "reset"     -> <<ContentChunk("RESET")>>
      [] ev = "finished"  -> <<DoneChunk(emitted)>>
      [] OTHER            -> <<>>

\* the frames _process_sse_response_lines yields for one such event
EventFrames(ev, emitted) ==
    CASE ev = "text"      -> <<ContentChunk("a")>>
      [] ev = "tool_call" -> <<ToolCallsChunk>>
      [] ev = "todo"      -> <<ToolCallsChunk>>
      [] ev = "reset"     -> <<ContentChunk("RESET")>>
      [] ev = "finished"  -> <<DoneChunk(emitted)>>
      [] OTHER            -> <<>>

\* one iteration of the loop over response.aiter_lines() for a whole event
Line(ev) ==
    /\ pc = "lines"
    /\ Len(upstream) < MaxEvents
    /\ nlines' = nlines + 1
    /\ out' = out \o ProducedFor(EventFrames(ev, tool_calls_emitted), retry_count, nlines + 1)
    /\ upstream' = Append(upstream, [att |-> retry_count, n |-> nlines + 1, ev |-> ev])
    /\ tool_calls_emitted' = (tool_calls_emitted \/ ev = "tool_call")
    /\ UNCHANGED <<pc, endpoint, stream, retry_count, restricted_tools, packet,
                   origPacket, sent, httpStatus, lastErr, bridge_resp, last_status, recov>>
    /\ UNCHANGED nonPx

\* how an upstream exchange behind a 200 answer of the bridge can fail
ExchangeFailures == {"http_error", "raised", "no_retry_session"}

\* what _process_sse_response_lines yields for the single data frame by which
\* the bridge reports a failed upstream exchange: the frame has no
\* parsed_data, so nothing
FailureFrames(frame) == <<>>

\* one iteration of the loop for the bridge's stream of a failed upstream
\* exchange (a non-200, non-429 status, a 429 on the retry, an exception): the
\* bridge has answered 200 and its stream holds that frame and [DONE]
BridgeFailure(r) ==
    /\ pc = "lines"
    /\ nlines = 0
    /\ Len(upstream) < MaxEvents
    /\ nlines' = 1
    /\ out' = out \o ProducedFor(FailureFrames(RouteFrames(r, <<>>)[1]), retry_count, 1)
    /\ upstream' = Append(upstream, [att |-> retry_count, n |-> 1, ev |-> r])
    /\ pc' = "last_line"
    /\ UNCHANGED <<endpoint, stream, retry_count, restricted_tools, packet, origPacket, sent,
                   tool_calls_emitted, httpStatus, lastErr, bridge_resp, last_status, recov>>
    /\ UNCHANGED nonPx

\* the upstream stream ends (a [DONE] payload, or the connection closes)
EndOfLines ==
    /\ pc \in {"lines", "last_line"}
    /\ Finish(EndOfLinesFrames)
    /\ UNCHANGED <<endpoint, stream, upstream, retry_count, restricted_tools, packet, origPacket,
                   sent, tool_calls_emitted, nlines, httpStatus, lastErr, bridge_resp,
                   last_status, recov>>
    /\ UNCHANGED nonPx

\* any other exception while reading the stream (transport error, an event
\* that is not a JSON object)
LineException ==
    /\ pc \in {"lines", "last_line"}
    /\ Finish(ErrorFrames)
    /\ UNCHANGED <<endpoint, stream, upstream, retry_count, restricted_tools, packet, origPacket,
                   sent, tool_calls_emitted, nlines, httpStatus, lastErr, bridge_resp,
                   last_status, recov>>
    /\ UNCHANGED nonPx

\* the exhausted-retry branch: error text, terminating chunk, [DONE], return
Exhausted(kind) ==
    /\ Finish(ExhaustedFrames)
    /\ recov' = [recov EXCEPT !.exhausted = TRUE, !.postsAtExhaustion = Len(sent)]
    /\ lastErr' = kind
    /\ UNCHANGED <<retry_count, restricted_tools, packet, origPacket>>

\* finished.internal_error: InternalErrorRecoverable(tool) and its handler
InternalError(tool) ==
    /\ pc = "lines"
    /\ IF RetryExhausted(RecoveriesSoFar(retry_count, recov.internal))
       THEN Exhausted("internal")
       ELSE /\ restricted_tools' = IF tool # NoTool THEN restricted_tools \cup {tool}
                                   ELSE restricted_tools
            /\ out' = out \o NoticeFrames
            /\ packet' = Recovered(packet, InjectInternal(packet, tool)).retry
            /\ origPacket' = Recovered(packet, InjectInternal(packet, tool)).failed
            /\ retry_count' = retry_count + 1
            /\ recov' = [recov EXCEPT !.internal = @ + 1, !.postsAtRecovery = Len(sent)]
            /\ lastErr' = "internal"
            /\ pc' = "enter"
    /\ UNCHANGED <<endpoint, stream, upstream, sent, tool_calls_emitted, nlines,
                   httpStatus, bridge_resp, last_status>>
    /\ UNCHANGED nonPx

\* finished.llm_unavailable: LLMUnavailableRecoverable and its handler
LLMUnavailable ==
    /\ pc = "lines"
    /\ IF RetryExhausted(RecoveriesSoFar(retry_count, recov.llm))
       THEN Exhausted("llm")
       ELSE /\ out' = out \o NoticeFrames
            /\ packet' = Recovered(packet, InjectLLM(packet)).retry
            /\ origPacket' = Recovered(packet, InjectLLM(packet)).failed
            /\ retry_count' = retry_count + 1
            /\ recov' = [recov EXCEPT !.llm = @ + 1, !.postsAtRecovery = Len(sent)]
            /\ lastErr' = "llm"
            /\ pc' = "enter"
            /\ UNCHANGED restricted_tools
    /\ UNCHANGED <<endpoint, stream, upstream, sent, tool_calls_emitted, nlines,
                   httpStatus, bridge_resp, last_status>>
    /\ UNCHANGED nonPx

StreamNext ==
    \/ \E ok \in BOOLEAN : Enter(ok)
    \/ \E st \in BridgeStatuses : Post(st)
    \/ \E st \in BridgeStatuses : Post2(st)
    \/ \E ev \in FlowEvents : Line(ev)
    \/ \E r \in ExchangeFailures : BridgeFailure(r)
    \/ EndOfLines
    \/ LineException
    \/ \E t \in ErrTools : InternalError(t)
    \/ LLMUnavailable

----------------------------------------------------------------------------
(* Front end: the non-streaming path of chat_completions / anthropic_messages *)

\* what the collected events of a 200 response hold:
\*   clean     no finished.internal_error, no finished.llm_unavailable
\*   ie_tool   internal_error whose message names a tool
\*   ie_word   internal_error naming no tool, message holding "internal_error"
\*   ie_plain  internal_error naming no tool, message without that word
\*   llm       finished.llm_unavailable
RespKinds == {"clean", "ie_tool", "ie_word", "ie_plain", "llm"}

\* a handler that lets the HTTPException of the bridge status through
BridgeFailureStatusPassedOn(st) == st

\* the status an HTTPException raised inside the try block ends as:
\* "except Exception as e: raise HTTPException(502, ...)"
BridgeFailureStatus(st) == 502

\* the handler answers with status st
Respond(st) ==
    /\ httpStatus' = st
    /\ pc' = "done"

nsKeep == <<endpoint, stream, upstream, retry_count, restricted_tools, out,
            tool_calls_emitted, nlines, lastErr>>

\* the first POST of the packet (_post_once / _post_with_packet)
NsPost(st, kind) ==
    /\ pc \in {"ns_post", "ns_post2"}
    /\ sent' = Append(sent, packet)
    /\ last_status' = st
    /\ IF st = 429 /\ pc = "ns_post"
       THEN pc' = "ns_post2" /\ UNCHANGED <<httpStatus, bridge_resp>>
       ELSE IF st # 200
       THEN Respond(BridgeFailureStatus(st)) /\ UNCHANGED bridge_resp
       ELSE /\ bridge_resp' = kind
            /\ IF endpoint = "chat"
               THEN pc' = "ns_check_ie" /\ UNCHANGED httpStatus
               ELSE pc' = "ns_convert" /\ UNCHANGED httpStatus
    /\ recov' = IF st = 200 THEN [recov EXCEPT !.collected = Append(@, kind)] ELSE recov
    /\ UNCHANGED <<packet, origPacket, nsKeep>>
    /\ UNCHANGED nonPx

\* anthropic_messages: openai_to_anthropic_response; 500 when it raises
NsConvert(ok) ==
    /\ pc = "ns_convert"
    /\ Respond(IF ok THEN 200 ELSE 500)
    /\ UNCHANGED <<packet, origPacket, sent, bridge_resp, last_status, recov, nsKeep>>
    /\ UNCHANGED nonPx

\* "if tool_name or (err_msg and 'internal_error' in err_msg)"
TriggersInternalRetry(kind) == kind \in {"ie_tool", "ie_word"}

\* chat_completions: detect internal_error in the collected events
NsCheckInternal ==
    /\ pc = "ns_check_ie"
    /\ IF TriggersInternalRetry(bridge_resp)
       THEN /\ LET r == Recovered(origPacket,
                                    InjectInternal(origPacket,
                                        IF bridge_resp = "ie_tool" THEN "read_files"
                                                                   ELSE NoTool)) IN
                   packet' = r.retry /\ origPacket' = r.failed
            /\ recov' = [recov EXCEPT !.internal = @ + 1, !.postsAtRecovery = Len(sent)]
            /\ pc' = "ns_ie_post"
       ELSE /\ pc' = "ns_check_llm"
            /\ UNCHANGED <<packet, origPacket, recov>>
    /\ UNCHANGED <<sent, httpStatus, bridge_resp, last_status, nsKeep>>
    /\ UNCHANGED nonPx

\* chat_completions: detect llm_unavailable; new_packet is again a deep copy of
\* the packet the assembler built
NsCheckLLM ==
    /\ pc = "ns_check_llm"
    /\ IF bridge_resp = "llm"
       THEN /\ LET r == Recovered(origPacket, InjectLLM(origPacket)) IN
                   packet' = r.retry /\ origPacket' = r.failed
            /\ recov' = [recov EXCEPT !.llm = @ + 1, !.postsAtRecovery = Len(sent)]
            /\ pc' = "ns_llm_post"
            /\ UNCHANGED httpStatus
       ELSE /\ Respond(200)
            /\ UNCHANGED <<packet, origPacket, recov>>
    /\ UNCHANGED <<sent, bridge_resp, last_status, nsKeep>>
    /\ UNCHANGED nonPx

\* the POST of a recovery packet, its 429 retry, and what follows
NsRetryPost(st, kind) ==
    /\ pc \in {"ns_ie_post", "ns_ie_post2", "ns_llm_post", "ns_llm_post2"}
    /\ sent' = Append(sent, packet)
    /\ last_status' = st
    /\ IF st = -1
       THEN Respond(BridgeFailureStatus(st)) /\ UNCHANGED bridge_resp
       ELSE IF st = 429 /\ pc \in {"ns_ie_post", "ns_llm_post"}
       THEN /\ pc' = IF pc = "ns_ie_post" THEN "ns_ie_post2" ELSE "ns_llm_post2"
            /\ UNCHANGED <<httpStatus, bridge_resp>>
       ELSE /\ bridge_resp' = IF st = 200 THEN kind ELSE bridge_resp
            /\ IF pc \in {"ns_ie_post", "ns_ie_post2"}
               THEN pc' = "ns_check_llm" /\ UNCHANGED httpStatus
               ELSE Respond(200)
    /\ recov' = IF st = 200 THEN [recov EXCEPT !.collected = Append(@, kind)] ELSE recov
    /\ UNCHANGED <<packet, origPacket, nsKeep>>
    /\ UNCHANGED nonPx

NonStreamNext ==
    \/ \E st \in BridgeStatuses, k \in RespKinds : NsPost(st, k)
    \/ \E ok \in BOOLEAN : NsConvert(ok)
    \/ NsCheckInternal
    \/ NsCheckLLM
    \/ \E st \in BridgeStatuses, k \in RespKinds : NsRetryPost(st, k)

----------------------------------------------------------------------------
(* The Anthropic SSE translator stream_anthropic_sse *)

\* an Anthropic event; index is -1 for an event that carries none
AnEvent(type, index) == [type |-> type, index |-> index]

MessageStart == AnEvent("message_start", -1)
BlockStart(i) == AnEvent("content_block_start", i)
BlockDelta(i) == AnEvent("content_block_delta", i)
BlockStop(i) == AnEvent("content_block_stop", i)
MessageDelta(reason) == [type |-> "message_delta", index |-> -1, stop_reason |-> reason]
MessageStop == AnEvent("message_stop", -1)
ErrorEvent == AnEvent("error", -1)

\* stop_reason_mapping.get(finish_reason, "end_turn")
StopReason(finish_reason) ==
    CASE finish_reason = "stop"           -> "end_turn"
      [] finish_reason = "length"         -> "max_tokens"
      [] finish_reason = "tool_calls"     -> "tool_use"
      [] finish_reason = "content_filter" -> "stop_sequence"
      [] OTHER                            -> "end_turn"

\* finish reasons the wrapped OpenAI stream carries (sse_transform.py emits
\* "stop", "tool_calls" and "error")
FinishReasons == {"stop", "tool_calls", "error"}

\* OpenAI chunks that do not end the translation:
\*   role       delta {role: assistant, content: ""}
\*   skip       a blank line, undecodable JSON, or a chunk without choices
\*   text       delta with non-empty content
\*   tool_new   delta.tool_calls entry with id, function.name and arguments
\*   tool_args  delta.tool_calls entry with arguments only
DeltaChunks == {"role", "skip", "text", "tool_new", "tool_args"}

AnInit ==
    /\ an_pc = "start"
    /\ an_in = <<>>
    /\ an_out = <<>>
    /\ content_index = 0
    /\ has_text_content = FALSE
    /\ has_tool_calls = FALSE
    /\ current_tool_call = FALSE
    /\ stream_completed = FALSE
    /\ an_late = <<>>

\* message_start and the initialisation of the locals
AnStart ==
    /\ an_pc = "start"
    /\ an_out' = <<MessageStart>>
    /\ an_pc' = "loop"
    /\ UNCHANGED <<an_in, content_index, has_text_content, has_tool_calls,
                   current_tool_call, stream_completed>>
    /\ UNCHANGED an_late
    /\ UNCHANGED nonAn

\* "if has_text_content: content_block_stop": what a new tool call closes
\* (an open tool_use block is not closed)
ClosedByToolCall(text, tools, idx) ==
    IF text THEN <<BlockStop(idx)>> ELSE <<>>

\* content_index when the tool_use block of a new tool call starts
ToolIndex(text, tools, idx) ==
    idx + (IF text THEN 1 ELSE 0) + (IF tools THEN 1 ELSE 0)

\* one iteration of the loop for a chunk without finish_reason
AnDelta(c) ==
    /\ an_pc = "loop"
    /\ Len(an_in) < MaxChunks
    /\ an_in' = Append(an_in, c)
    /\ CASE c = "text" ->
              /\ an_out' = an_out
                            \o (IF has_text_content THEN <<>> ELSE <<BlockStart(content_index)>>)
                            \o <<BlockDelta(content_index)>>
              /\ has_text_content' = TRUE
              /\ UNCHANGED <<content_index, has_tool_calls, current_tool_call>>
         [] c = "tool_new" ->
              LET idx == ToolIndex(has_text_content, has_tool_calls, content_index) IN
              /\ an_out' = an_out
                            \o ClosedByToolCall(has_text_content, has_tool_calls, content_index)
                            \o <<BlockStart(idx), BlockDelta(idx)>>
              /\ content_index' = idx
              /\ has_text_content' = FALSE
              /\ has_tool_calls' = TRUE
              /\ current_tool_call' = TRUE
         [] c = "tool_args" ->
              /\ an_out' = an_out
                            \o (IF current_tool_call THEN <<BlockDelta(content_index)>> ELSE <<>>)
              /\ UNCHANGED <<content_index, has_text_content, has_tool_calls,
                             current_tool_call>>
         [] OTHER ->
              UNCHANGED <<an_out, content_index, has_text_content, has_tool_calls,
                          current_tool_call>>
    /\ UNCHANGED <<an_pc, stream_completed>>
    /\ UNCHANGED an_late
    /\ UNCHANGED nonAn

\* a chunk carrying finish_reason: close the block, message_delta, message_stop
AnFinish(reason) ==
    /\ an_pc = "loop"
    /\ Len(an_in) < MaxChunks
    /\ an_in' = Append(an_in, reason)
    /\ an_out' = an_out
                  \o (IF has_text_content \/ has_tool_calls
                      THEN <<BlockStop(content_index)>> ELSE <<>>)
                  \o <<MessageDelta(StopReason(reason)), MessageStop>>
    /\ current_tool_call' = IF has_text_content \/ has_tool_calls THEN FALSE
                             ELSE current_tool_call
    /\ stream_completed' = TRUE
    /\ an_pc' = "done"
    /\ UNCHANGED <<content_index, has_text_content, has_tool_calls>>
    /\ UNCHANGED an_late
    /\ UNCHANGED nonAn

\* "data: [DONE]" (break), or the wrapped generator is exhausted
AnEndOfInput ==
    /\ an_pc = "loop"
    /\ an_in' = Append(an_in, "[DONE]")
    /\ an_pc' = "done"
    /\ UNCHANGED <<an_out, content_index, has_text_content, has_tool_calls,
                   current_tool_call, stream_completed>>
    /\ UNCHANGED an_late
    /\ UNCHANGED nonAn

\* an exception inside the loop: the handler emits the error event only
AnException ==
    /\ an_pc = "loop"
    /\ an_in' = Append(an_in, "raise")
    /\ an_out' = Append(an_out, ErrorEvent)
    /\ an_pc' = "done"
    /\ UNCHANGED <<content_index, has_text_content, has_tool_calls,
                   current_tool_call, stream_completed>>
    /\ UNCHANGED an_late
    /\ UNCHANGED nonAn

\* a translator that goes on translating after the end
LateEventsTranslated(c) == IF c = "text" THEN <<BlockDelta(content_index)>> ELSE <<>>

\* what is emitted for a chunk the wrapped stream still holds once the
\* generator has left its loop ("stream_completed = True; break", or any other
\* end): the chunk is never consumed
LateEvents(c) == <<>>

\* the wrapped stream holds a further chunk after the translator's end
AnLate(c) ==
    /\ an_pc = "done"
    /\ Len(an_in) + Len(an_late) < MaxChunks
    /\ an_late' = Append(an_late, c)
    /\ an_out' = an_out \o LateEvents(c)
    /\ UNCHANGED <<an_pc, an_in, content_index, has_text_content, has_tool_calls,
                   current_tool_call, stream_completed>>
    /\ UNCHANGED nonAn

AnNext ==
    \/ AnStart
    \/ \E c \in DeltaChunks : AnDelta(c)
    \/ \E r \in FinishReasons : AnFinish(r)
    \/ AnEndOfInput
    \/ AnException
    \/ \E c \in DeltaChunks \cup FinishReasons \cup {"[DONE]"} : AnLate(c)

----------------------------------------------------------------------------
(* The history normalizer: reorder_messages_for_anthropic, then              *)
(* clean_incomplete_tool_calls; and attach_user_and_tools_to_inputs          *)

\* A ChatMessage.  content is the sequence of its text segments (<<>>: empty
\* or None; more than one segment: a list content); tool_calls the sequence of
\* the ids of its tool calls; tool_call_id "" stands for None.
Msg(role, content, tool_calls, tool_call_id) ==
    [role |-> role, content |-> content, tool_calls |-> tool_calls,
     tool_call_id |-> tool_call_id]

IsToolResult(m) == m.role = "tool" /\ m.tool_call_id # ""
HasToolCalls(m) == m.role = "assistant" /\ m.tool_calls # <<>>

\* messages a client can send
ClientMessages ==
    { Msg("user", <<"q">>, <<>>, ""),
      Msg("user", <<"q", "r">>, <<>>, ""),
      Msg("system", <<"s">>, <<>>, ""),
      Msg("assistant", <<"a">>, <<>>, ""),
      Msg("assistant", <<>>, <<"t1">>, ""),
      Msg("assistant", <<>>, <<"t2">>, ""),
      Msg("assistant", <<"a">>, <<"t1", "t2">>, ""),
      Msg("tool", <<"r">>, <<>>, "t1"),
      Msg("tool", <<>>, <<>>, "t1"),
      Msg("tool", <<"r">>, <<>>, "t2"),
      Msg("tool", <<"r">>, <<>>, "t3") }

\* an expansion that puts the segments of a user message in reverse order
ExpandOneReversed(m) ==
    IF m.role = "user"
    THEN IF Len(m.content) > 1
         THEN [k \in 1..Len(m.content) |->
                 Msg("user", <<m.content[Len(m.content) + 1 - k]>>, <<>>, "")]
         ELSE <<m>>
    ELSE IF m.role = "assistant" /\ Len(m.tool_calls) > 1
    THEN (IF m.content # <<>> THEN <<Msg("assistant", m.content, <<>>, "")>> ELSE <<>>)
         \o [k \in 1..Len(m.tool_calls) |-> Msg("assistant", <<>>, <<m.tool_calls[k]>>, "")]
    ELSE <<m>>

\* the expansion of one message: a user message with several segments becomes
\* one user message per segment, an assistant with several tool calls becomes
\* its text (if any) and one assistant message per tool call
ExpandOne(m) ==
    IF m.role = "user"
    THEN IF Len(m.content) > 1
         THEN [k \in 1..Len(m.content) |-> Msg("user", <<m.content[k]>>, <<>>, "")]
         ELSE <<m>>
    ELSE IF m.role = "assistant" /\ Len(m.tool_calls) > 1
    THEN (IF m.content # <<>> THEN <<Msg("assistant", m.content, <<>>, "")>> ELSE <<>>)
         \o [k \in 1..Len(m.tool_calls) |-> Msg("assistant", <<>>, <<m.tool_calls[k]>>, "")]
    ELSE <<m>>

RECURSIVE Expand(_)
Expand(h) == IF h = <<>> THEN <<>> ELSE ExpandOne(Head(h)) \o Expand(Tail(h))

\* the backward scan: the id of the last tool result if no user message
\* follows it, "" otherwise
RECURSIVE LastInputToolId(_)
LastInputToolId(e) ==
    IF e = <<>> THEN ""
    ELSE LET m == e[Len(e)] IN
         IF IsToolResult(m) THEN m.tool_call_id
         ELSE IF m.role = "user" THEN ""
         ELSE LastInputToolId(SubSeq(e, 1, Len(e) - 1))

\* tool_results_by_id[id]: the first tool result carrying the id
FirstResult(e, id) ==
    e[CHOOSE k \in DOMAIN e :
        /\ IsToolResult(e[k]) /\ e[k].tool_call_id = id
        /\ \A j \in 1..(k - 1) : ~(IsToolResult(e[j]) /\ e[j].tool_call_id = id)]

ResultIds(e) == {e[k].tool_call_id : k \in {j \in DOMAIN e : IsToolResult(e[j])}}

AssistantTcIds(e) ==
    UNION {Range(e[k].tool_calls) : k \in {j \in DOMAIN e : HasToolCalls(e[j])}}

\* "for _id in ids: tr = tool_results_by_id.pop(_id, None)": the results
\* appended after an assistant message, avail being the ids still in the dict
RECURSIVE PoppedResults(_, _, _)
PoppedResults(e, ids, avail) ==
    IF ids = <<>> THEN <<>>
    ELSE IF Head(ids) \in avail
         THEN <<FirstResult(e, Head(ids))>> \o PoppedResults(e, Tail(ids), avail \ {Head(ids)})
         ELSE PoppedResults(e, Tail(ids), avail)

\* the forward walk over the expanded list from position i
RECURSIVE ReorderWalk(_, _, _, _, _, _)
ReorderWalk(e, last, i, result, avail, trailing) ==
    IF i > Len(e)
    THEN IF last # "" /\ trailing # <<>>
         THEN result \o trailing
              \o (IF last \in avail THEN <<FirstResult(e, last)>> ELSE <<>>)
         ELSE result
    ELSE LET m == e[i] IN
         IF m.role = "tool"
         THEN IF m.tool_call_id = "" \/ m.tool_call_id \notin AssistantTcIds(e)
              THEN ReorderWalk(e, last, i + 1, Append(result, m),
                               avail \ {m.tool_call_id}, trailing)
              ELSE ReorderWalk(e, last, i + 1, result, avail, trailing)
         ELSE IF HasToolCalls(m)
         THEN IF last # "" /\ last \in Range(m.tool_calls)
              THEN ReorderWalk(e, last, i + 1, result, avail,
                               IF trailing = <<>> THEN <<m>> ELSE trailing)
              ELSE ReorderWalk(e, last, i + 1,
                               Append(result, m) \o PoppedResults(e, m.tool_calls, avail),
                               avail \ Range(m.tool_calls), trailing)
         ELSE ReorderWalk(e, last, i + 1, Append(result, m), avail, trailing)

reorder_messages_for_anthropic(h) ==
    LET e == Expand(h) IN
    ReorderWalk(e, LastInputToolId(e), 1, <<>>, ResultIds(e), <<>>)

\* "not content or (isinstance(content, str) and not content.strip())"
EmptyContent(c) == c = <<>>

\* an empty tool result is replaced by one with content "No content"
Filled(m) == IF EmptyContent(m.content) THEN [m EXCEPT !.content = <<"No content">>] ELSE m

\* where the inner collecting loop stops: the first message from j on that is
\* neither a tool result nor a user or system message
RECURSIVE CollectEnd(_, _)
CollectEnd(ms, j) ==
    IF j > Len(ms) THEN j
    ELSE IF IsToolResult(ms[j]) \/ ms[j].role \in {"user", "system"}
         THEN CollectEnd(ms, j + 1)
         ELSE j

\* the search of the standalone-tool branch: a tool use with this id among
\* the messages kept so far, looking back up to a plain assistant message
RECURSIVE HasMatchingToolUse(_, _)
HasMatchingToolUse(fixed, id) ==
    IF fixed = <<>> THEN FALSE
    ELSE LET prev == fixed[Len(fixed)] IN
         IF HasToolCalls(prev) /\ id \in Range(prev.tool_calls) THEN TRUE
         ELSE IF prev.role = "assistant" /\ ~HasToolCalls(prev) THEN FALSE
         ELSE HasMatchingToolUse(SubSeq(fixed, 1, Len(fixed) - 1), id)

\* the tool results kept after an assistant message: all the collected ones,
\* or, when a tool call misses its result, only those of found ids
KeptResults(tool_results, missing, found) ==
    LET Matches(x) == x.tool_call_id \in found IN
    IF missing = {} THEN tool_results ELSE SelectSeq(tool_results, Matches)

\* the main loop of clean_incomplete_tool_calls from position i
RECURSIVE CleanFrom(_, _, _)
CleanFrom(ms, i, fixed) ==
    IF i > Len(ms) THEN fixed
    ELSE LET cur == ms[i] IN
         IF HasToolCalls(cur)
         THEN LET expected == Range(cur.tool_calls)
                  stop == CollectEnd(ms, i + 1)
                  span == SubSeq(ms, i + 1, stop - 1)
                  IsTool(x) == IsToolResult(x)
                  IsOther(x) == ~IsToolResult(x)
                  collected == SelectSeq(span, IsTool)
                  tool_results == [k \in DOMAIN collected |->
                                     IF collected[k].tool_call_id \in expected
                                     THEN Filled(collected[k]) ELSE collected[k]]
                  found == {collected[k].tool_call_id : k \in DOMAIN collected} \cap expected
                  interrupted == SelectSeq(span, IsOther)
                  missing == expected \ found
                  Valid(id) == id \notin missing
                  valid_tool_calls == SelectSeq(cur.tool_calls, Valid)
                  kept_msg == IF missing = {} THEN <<cur>>
                              ELSE IF valid_tool_calls # <<>>
                              THEN <<[cur EXCEPT !.tool_calls = valid_tool_calls]>>
                              ELSE IF cur.content # <<>>
                              THEN <<[cur EXCEPT !.tool_calls = <<>>]>>
                              ELSE <<>>
              IN CleanFrom(ms, stop,
                           fixed \o kept_msg \o KeptResults(tool_results, missing, found)
                                 \o interrupted)
         ELSE IF cur.role = "tool"
         THEN CleanFrom(ms, i + 1,
                        IF HasMatchingToolUse(fixed, cur.tool_call_id)
                        THEN Append(fixed, Filled(cur)) ELSE fixed)
         ELSE CleanFrom(ms, i + 1, Append(fixed, cur))

clean_incomplete_tool_calls(ms) == CleanFrom(ms, 1, <<>>)

\* router.py: history = clean_incomplete_tool_calls(reorder_messages_for_anthropic(...))
Normalized(h) == clean_incomplete_tool_calls(reorder_messages_for_anthropic(h))

\* what attach_user_and_tools_to_inputs appends to input.user_inputs.inputs
attach_user_and_tools_to_inputs(h) ==
    LET last == h[Len(h)] IN
    IF last.role = "user"
    THEN <<[kind |-> "user_query",
            query |-> IF last.content = <<>> THEN <<" ">> ELSE last.content]>>
    ELSE IF IsToolResult(last)
    THEN <<[kind |-> "tool_call_result", tool_call_id |-> last.tool_call_id]>>
    ELSE IF last.role = "assistant" /\ last.tool_calls = <<>>
    THEN <<[kind |-> "user_query", query |-> <<"CONTINUE">>]>>
    ELSE <<>>

\* the index map_history_to_warp_messages skips: the last message that is a
\* user message or a tool result with tool_call_id; 0 stands for None
RECURSIVE LastInputIndex(_, _)
LastInputIndex(h, idx) ==
    IF idx = 0 THEN 0
    ELSE IF h[idx].role = "user" \/ IsToolResult(h[idx]) THEN idx
    ELSE LastInputIndex(h, idx - 1)

\* the task_context messages of the i-th message of the history, skip being
\* last_input_index; src is history: the index of the message an entry is
\* made from.  A system message and a tool message without tool_call_id make
\* none.
HistoryEntries(h, i, skip) ==
    LET m == h[i] IN
    IF skip # 0 /\ i = skip THEN <<>>
    ELSE IF m.role = "user" THEN <<[kind |-> "user_query", src |-> i, text |-> m.content]>>
    ELSE IF m.role = "assistant"
    THEN (IF m.content # <<>>
          THEN <<[kind |-> "agent_output", src |-> i, text |-> m.content]>> ELSE <<>>)
         \o [k \in DOMAIN m.tool_calls |->
                [kind |-> "tool_call", src |-> i, text |-> <<m.tool_calls[k]>>]]
    ELSE IF IsToolResult(m)
    THEN <<[kind |-> "tool_call_result", src |-> i, text |-> <<m.tool_call_id>>]>>
    ELSE <<>>

RECURSIVE MapFrom(_, _, _)
MapFrom(h, i, skip) ==
    IF i > Len(h) THEN <<>>
    ELSE HistoryEntries(h, i, skip) \o MapFrom(h, i + 1, skip)

\* map_history_to_warp_messages(history, task_id, None, False): the server
\* tool_call preamble, the tool restrictions message, then the entries of the
\* history
map_history_to_warp_messages(h) ==
    << [kind |-> "tool_call", src |-> 0, text |-> <<"server">>],
       [kind |-> "agent_output", src |-> 0, text |-> <<"RESTRICTIONS">>] >>
    \o MapFrom(h, 1, LastInputIndex(h, Len(h)))

\* the index of the message attach_user_and_tools_to_inputs turns into the
\* final input: history[-1] when it is a user message or a tool result; 0 when
\* the input is the continue request or there is none
InputSource(h) ==
    IF h[Len(h)].role = "user" \/ IsToolResult(h[Len(h)]) THEN Len(h) ELSE 0

NmInit ==
    /\ nm_pc = "request"
    /\ messages = <<>>
    /\ history = <<>>
    /\ inputs = <<>>
    /\ task_messages = <<>>

\* the client puts one more message into the request
AddMessage(m) ==
    /\ nm_pc = "request"
    /\ Len(messages) < MaxHist
    /\ messages' = Append(messages, m)
    /\ UNCHANGED <<nm_pc, history, inputs, task_messages>>
    /\ UNCHANGED nonNm

\* the request of the adjacency-repair scenario: a question, two tool calls in
\* one assistant message, the first result, an interruption, the second
\* result without content
AdjacencyRepair ==
    << Msg("user", <<"q">>, <<>>, ""),
       Msg("assistant", <<>>, <<"t1", "t2">>, ""),
       Msg("tool", <<"r1">>, <<>>, "t1"),
       Msg("user", <<"interrupt">>, <<>>, ""),
       Msg("tool", <<>>, <<>>, "t2") >>

\* whole requests a client can send
Scenarios == {AdjacencyRepair}

\* the client sends a whole request
Request(h) ==
    /\ nm_pc = "request"
    /\ messages = <<>>
    /\ messages' = h
    /\ UNCHANGED <<nm_pc, history, inputs, task_messages>>
    /\ UNCHANGED nonNm

\* chat_completions: the two passes over req.messages (a request without
\* messages is answered 400 before)
Normalize ==
    /\ nm_pc = "request"
    /\ messages # <<>>
    /\ history' = Normalized(messages)
    /\ nm_pc' = "normalized"
    /\ UNCHANGED <<messages, inputs, task_messages>>
    /\ UNCHANGED nonNm

\* chat_completions: the packet's task_context from
\* map_history_to_warp_messages(history, ...), then
\* attach_user_and_tools_to_inputs(packet, history, ...); on an empty history
\* its assertion fails and no packet is built
BuildPacket ==
    /\ nm_pc = "normalized"
    /\ history # <<>>
    /\ task_messages' = map_history_to_warp_messages(history)
    /\ inputs' = attach_user_and_tools_to_inputs(history)
    /\ nm_pc' = "built"
    /\ UNCHANGED <<messages, history>>
    /\ UNCHANGED nonNm

NmNext ==
    \/ \E m \in ClientMessages : AddMessage(m)
    \/ \E h \in Scenarios : Request(h)
    \/ Normalize
    \/ BuildPacket

----------------------------------------------------------------------------
(* The upstream streamer _send_protobuf_to_warp_api_parsed_impl *)

\* "for attempt in range(2)"
MaxAttempts == 2

\* what the upstream POST can answer; -1 stands for an exception raised by
\* client.stream other than a timeout (connect error), -2 for an
\* httpx.TimeoutException
UpstreamStatuses == {200, 429, 500, -1, -2}

\* event types of the upstream response events that decode (a block that does
\* not decode is skipped and changes nothing)
UpstreamEvents == {"init", "text", "other"}

\* the wrapper before anything happened: the first call of the
\* implementation runs; history: timeouts met, POSTs made over both calls,
\* POSTs made when the first timeout was met, sessions the first call held
\* when it timed out
NoWrap == [call |-> 1, timeouts |-> 0, posts |-> 0, postsAtTimeout |-> 0, leaked |-> {}]

ApInit ==
    /\ ap_pc = "acquire"
    /\ attempt = 0
    /\ session = 0
    /\ held = {}
    /\ blocked = {}
    /\ statuses = <<>>
    /\ parsed_events = <<>>
    /\ ap_result = "none"
    /\ wrap = NoWrap
    /\ agen_out = <<>>

\* the call returns with result r
ApReturn(r) ==
    /\ ap_pc' = "returned"
    /\ ap_result' = r

\* an exception leaves the function through "except Exception: ... raise"
ApRaise ==
    /\ ap_pc' = "raised"
    /\ ap_result' = "raised"

\* "except httpx.TimeoutException as timeout_err" around the first call of the
\* implementation: the request is rebuilt with the continue hint and the
\* implementation is called once more
ReinvokesAfter(timeout, call) == timeout /\ call = 1

\* an exception leaves the implementation after posts POSTs, sts being the
\* statuses of this call: the wrapper calls the implementation again (its
\* locals start afresh, the sessions the first call still holds stay at the
\* broker), or the exception reaches the caller
ApException(timeout, posts, sts) ==
    IF ReinvokesAfter(timeout, wrap.call)
    THEN /\ wrap' = [call |-> 2, timeouts |-> wrap.timeouts + 1, posts |-> posts,
                     postsAtTimeout |-> posts, leaked |-> held]
         /\ ap_pc' = "acquire"
         /\ attempt' = 0
         /\ session' = 0
         /\ held' = {}
         /\ blocked' = {}
         /\ statuses' = <<>>
         /\ parsed_events' = <<>>
         /\ UNCHANGED ap_result
    ELSE /\ wrap' = [wrap EXCEPT !.timeouts = @ + (IF timeout THEN 1 ELSE 0),
                                 !.posts = posts,
                                 !.postsAtTimeout = IF timeout /\ wrap.timeouts = 0
                                                    THEN posts ELSE @]
         /\ ApRaise
         /\ statuses' = sts
         /\ UNCHANGED <<attempt, session, held, blocked, parsed_events>>

\* manager.release_session(_pool_session_id)
release_session(sid) == held' = held \ {sid}

\* manager.mark_blocked(jwt_token=jwt, ...): the sessions reported so far
mark_blocked(sid) == {sid}

\* a streamer that retries after every 429
RetriesAfterAny429(st, att) == st = 429

\* "if response.status_code == 429 and attempt == 0"
RetriesAfter(st, att) == st = 429 /\ att = 0

\* manager.acquire_session(): a new session (ok), or None.  The first one
\* missing raises RuntimeError, the retry's one missing returns an error.
AcquireSession(ok) ==
    /\ ap_pc = "acquire"
    /\ IF ok
       THEN /\ session' = attempt + 1
            /\ held' = held \cup {attempt + 1}
            /\ ap_pc' = "post"
            /\ UNCHANGED ap_result
       ELSE /\ IF attempt = 0 THEN ApRaise ELSE ApReturn("no_retry_session")
            /\ UNCHANGED <<session, held>>
    /\ UNCHANGED <<attempt, blocked, statuses, parsed_events, wrap, agen_out>>
    /\ UNCHANGED nonAp

\* client.stream("POST", ...) and the handling of its status
UpstreamPost(st) ==
    /\ ap_pc = "post"
    /\ IF st < 0
       THEN ApException(st = -2, wrap.posts + 1, Append(statuses, st))
       ELSE /\ statuses' = Append(statuses, st)
            /\ wrap' = [wrap EXCEPT !.posts = @ + 1]
            /\ UNCHANGED <<session, parsed_events>>
            /\ IF st = 200
               THEN ap_pc' = "streaming" /\ UNCHANGED <<attempt, held, blocked, ap_result>>
               ELSE IF RetriesAfter(st, attempt)
               THEN /\ blocked' = blocked \cup mark_blocked(session)
                    /\ release_session(session)
                    /\ attempt' = attempt + 1
                    /\ IF attempt + 1 < MaxAttempts
                       THEN ap_pc' = "acquire" /\ UNCHANGED ap_result
                       ELSE ApReturn("none")
               ELSE /\ release_session(session)
                    /\ ApReturn("http_error")
                    /\ UNCHANGED <<attempt, blocked>>
    /\ UNCHANGED agen_out
    /\ UNCHANGED nonAp

\* one decoded event of the response read by "async for line in
\* response.aiter_lines()"
ReadEvent(ev) ==
    /\ ap_pc = "streaming"
    /\ Len(parsed_events) < MaxParsed
    /\ parsed_events' = Append(parsed_events, ev)
    /\ UNCHANGED <<ap_pc, attempt, session, held, blocked, statuses, ap_result, wrap,
                   agen_out>>
    /\ UNCHANGED nonAp

\* [DONE] or the end of the response: release the session and return
StreamEnd ==
    /\ ap_pc = "streaming"
    /\ release_session(session)
    /\ ApReturn("ok")
    /\ UNCHANGED <<attempt, session, blocked, statuses, parsed_events, wrap, agen_out>>
    /\ UNCHANGED nonAp

\* an exception while the response is read (a read timeout; or the
\* connection drops, the caller goes away): logged and re-raised
StreamException(timeout) ==
    /\ ap_pc = "streaming"
    /\ ApException(timeout, wrap.posts, statuses)
    /\ UNCHANGED agen_out
    /\ UNCHANGED nonAp

\* _agen yields its next frame
RouteYield ==
    /\ ap_pc \in {"returned", "raised"}
    /\ Len(agen_out) < Len(RouteFrames(ap_result, parsed_events))
    /\ agen_out' = Append(agen_out, RouteFrames(ap_result, parsed_events)[Len(agen_out) + 1])
    /\ UNCHANGED <<ap_pc, attempt, session, held, blocked, statuses, parsed_events,
                   ap_result, wrap>>
    /\ UNCHANGED nonAp

ApNext ==
    \/ \E ok \in BOOLEAN : AcquireSession(ok)
    \/ \E st \in UpstreamStatuses : UpstreamPost(st)
    \/ \E ev \in UpstreamEvents : ReadEvent(ev)
    \/ StreamEnd
    \/ \E t \in BOOLEAN : StreamException(t)
    \/ RouteYield

----------------------------------------------------------------------------
(* The credential pool WarpTokenPool *)

\* pool_size, the constructor's default
pool_size == 3

\* "threshold = (self.pool_size + 1) // 2"
threshold == (pool_size + 1) \div 2

\* a TokenInfo as the pool constructs it (status VALID); expired is what its
\* is_expired() answers now, which the token string the broker delivered and
\* the clock decide
TokenInfo(token, expired, last_used, use_count) ==
    [token |-> token, status |-> "valid", expired |-> expired,
     last_used |-> last_used, use_count |-> use_count]

Usable(t) == t.status = "valid" /\ ~t.expired

Min(a, b) == IF a < b THEN a ELSE b

\* _find_valid_token(exclude_token): the position of the first entry that is
\* valid and not expired (0: None); exclude 0 stands for no exclude_token
find_valid_token(toks, exclude) ==
    LET hits == {i \in DOMAIN toks : toks[i].token # exclude /\ Usable(toks[i])} IN
    IF hits = {} THEN 0 ELSE CHOOSE i \in hits : \A j \in hits : i <= j

\* the entry found is used: last_used and use_count
Used(toks, i) ==
    [toks EXCEPT ![i].last_used = now + 1, ![i].use_count = @ + 1]

\* how many _create_and_add_token tasks _ensure_pool_health creates
Needed(toks) ==
    LET valid_count == Cardinality({i \in DOMAIN toks : Usable(toks[i])}) IN
    IF valid_count <= threshold THEN pool_size - valid_count ELSE 0

\* every entry that carries the token is rate-limited
Marked(toks, failed) ==
    \A j \in DOMAIN toks : toks[j].token = failed => toks[j].status = "rate_limited"

NoGet == [ret |-> "none"]

NoRate == [ret |-> "none", failed |-> 0, reported |-> {}]

\* what acquire_fresh_token can answer at its (n + 1)-th delivery: a token
\* string it has not delivered before (n + 1), or the string of its latest
\* delivery again (the pool takes the accessToken of the worker's response as
\* it comes)
BrokerAnswers(n) == IF n < MaxTokens THEN {k \in {n, n + 1} : k > 0} ELSE {}

\* is_expired() of a new entry for the token tok: the answer is the token
\* string's, so it is the one of the entries that carry the same string
ExpiredLike(toks, tok, exp) ==
    IF \E j \in DOMAIN toks : toks[j].token = tok
    THEN \E j \in DOMAIN toks : toks[j].token = tok /\ toks[j].expired
    ELSE exp

PlInit ==
    /\ tokens = <<>>
    /\ lock = "free"
    /\ started = "no"
    /\ health_tasks = 0
    /\ creating = 0
    /\ next_token = 0
    /\ now = 0
    /\ stats = [total_requests |-> 0, successful_switches |-> 0,
                tokens_created |-> 0, rate_limit_hits |-> 0]
    /\ last_get = NoGet
    /\ last_rate = NoRate

\* asyncio.create_task(self._ensure_pool_health())
SpawnHealth == health_tasks' = Min(health_tasks + 1, MaxTasks)

\* get_token_pool: the pool is published, then start() awaits _fill_pool
PoolStart ==
    /\ started = "no"
    /\ started' = "filling"
    /\ UNCHANGED <<tokens, lock, health_tasks, creating, next_token, now, stats, last_get, last_rate>>
    /\ UNCHANGED nonPl

\* _fill_pool after its gather: k of the pool_size creations succeeded; the
\* entries are appended without the lock (nothing reads is_expired() of an
\* entry here: Expire decides it before the entry is next looked at)
FillPool(k) ==
    /\ started = "filling"
    /\ next_token + k <= MaxTokens
    /\ tokens' = tokens \o [j \in 1..k |-> TokenInfo(next_token + j, FALSE, 0, 0)]
    /\ next_token' = next_token + k
    /\ stats' = [stats EXCEPT !.tokens_created = @ + k]
    /\ started' = "running"
    /\ UNCHANGED <<lock, health_tasks, creating, now, last_get, last_rate>>
    /\ UNCHANGED nonPl

\* get_valid_token when _find_valid_token finds an entry: no await suspends
\* between taking the lock and the return
GetValidToken ==
    /\ started # "no"
    /\ lock = "free"
    /\ now < MaxCalls
    /\ LET i == find_valid_token(tokens, 0) IN
       /\ i # 0
       /\ tokens' = Used(tokens, i)
       /\ last_get' = [ret |-> "token", token |-> tokens[i].token, entry |-> tokens'[i],
                        at |-> now + 1, before |-> tokens[i].use_count, via |-> "pool",
                        reported |-> last_rate.reported]
    /\ now' = now + 1
    /\ stats' = [stats EXCEPT !.total_requests = @ + 1]
    /\ SpawnHealth
    /\ UNCHANGED <<lock, started, creating, next_token, last_rate>>
    /\ UNCHANGED nonPl

\* get_valid_token when the pool holds no usable entry: it awaits
\* _get_emergency_token with the lock held
GetEmergency ==
    /\ started # "no"
    /\ lock = "free"
    /\ now < MaxCalls
    /\ find_valid_token(tokens, 0) = 0
    /\ lock' = "get"
    /\ now' = now + 1
    /\ stats' = [stats EXCEPT !.total_requests = @ + 1]
    /\ UNCHANGED <<tokens, started, health_tasks, creating, next_token, last_get, last_rate>>
    /\ UNCHANGED nonPl

\* a pool whose lock stays taken when the emergency acquisition fails
LockAfterEmergencyKeptOnFailure(ok) == IF ok THEN "free" ELSE "stuck"

\* the lock once get_valid_token or handle_rate_limit leaves its
\* "async with self.lock" block, by return or by raise
LockAfterEmergency(ok) == "free"

\* _get_emergency_token answers: a token of the broker (appended with last_used
\* now and use_count 1, and returned as delivered: exp is what is_expired()
\* answers for it, which this path never asks) or None; then the health task,
\* the return, the lock release
EmergencyDone(ok, exp, tok) ==
    /\ lock \in {"get", "rate"}
    /\ IF ok
       THEN /\ tok \in BrokerAnswers(next_token)
            /\ exp = ExpiredLike(tokens, tok, exp)
            /\ tokens' = Append(tokens, TokenInfo(tok, exp, now, 1))
            /\ next_token' = next_token + 1
            /\ stats' = [stats EXCEPT !.tokens_created = @ + 1]
            /\ last_get' = IF lock = "get"
                            THEN [ret |-> "token", token |-> tok,
                                  entry |-> TokenInfo(tok, exp, now, 1),
                                  at |-> now, before |-> 0, via |-> "emergency",
                                  reported |-> last_rate.reported]
                            ELSE last_get
            /\ last_rate' = IF lock = "rate"
                             THEN [ret |-> "token", failed |-> last_rate.failed,
                                   token |-> tok,
                                   entry |-> TokenInfo(tok, exp, now, 1),
                                   marked |-> Marked(tokens', last_rate.failed),
                                   via |-> "emergency",
                                   before |-> last_rate.before, after |-> stats',
                                   earlier |-> last_rate.earlier,
                                   reported |-> last_rate.reported]
                             ELSE last_rate
       ELSE /\ ~exp
            /\ tok = 1
            /\ last_get' = IF lock = "get" THEN [ret |-> "raised"] ELSE last_get
            /\ last_rate' = IF lock = "rate"
                             THEN [ret |-> "null", failed |-> last_rate.failed,
                                   before |-> last_rate.before, after |-> stats,
                                   reported |-> last_rate.reported]
                             ELSE last_rate
            /\ UNCHANGED <<tokens, next_token, stats>>
    /\ SpawnHealth
    /\ lock' = LockAfterEmergency(ok)
    /\ UNCHANGED <<started, creating, now>>
    /\ UNCHANGED nonPl

\* the status marking of handle_rate_limit: the first entry with the token
MarkRateLimited(toks, failed) ==
    LET hits == {i \in DOMAIN toks : toks[i].token = failed} IN
    IF hits = {} THEN toks
    ELSE [toks EXCEPT ![CHOOSE i \in hits : \A j \in hits : i <= j].status = "rate_limited"]

\* handle_rate_limit(failed_token), for a token the broker has issued: mark,
\* then a backup entry, or the emergency acquisition with the lock held
HandleRateLimit(failed) ==
    /\ started # "no"
    /\ failed <= next_token
    /\ lock = "free"
    /\ now < MaxCalls
    /\ now' = now + 1
    /\ LET marked == MarkRateLimited(tokens, failed)
           i == find_valid_token(marked, failed) IN
       IF i # 0
       THEN /\ tokens' = [marked EXCEPT ![i].last_used = now + 1, ![i].use_count = @ + 1]
            /\ stats' = [stats EXCEPT !.rate_limit_hits = @ + 1,
                                       !.successful_switches = @ + 1]
            /\ last_rate' = [ret |-> "token", failed |-> failed,
                              token |-> marked[i].token, entry |-> tokens'[i],
                              marked |-> Marked(tokens', failed), via |-> "pool",
                              before |-> stats, after |-> stats',
                              earlier |-> last_rate.reported,
                              reported |-> last_rate.reported \cup {failed}]
            /\ SpawnHealth
            /\ UNCHANGED lock
       ELSE /\ tokens' = marked
            /\ stats' = [stats EXCEPT !.rate_limit_hits = @ + 1]
            /\ last_rate' = [ret |-> "pending", failed |-> failed, before |-> stats,
                              earlier |-> last_rate.reported,
                              reported |-> last_rate.reported \cup {failed}]
            /\ lock' = "rate"
            /\ UNCHANGED health_tasks
    /\ UNCHANGED <<started, creating, next_token, last_get>>
    /\ UNCHANGED nonPl

\* a created _ensure_pool_health task runs (it takes no lock)
EnsurePoolHealth ==
    /\ health_tasks > 0
    /\ health_tasks' = health_tasks - 1
    /\ creating' = Min(creating + Needed(tokens), MaxTasks)
    /\ UNCHANGED <<tokens, lock, started, next_token, now, stats, last_get, last_rate>>
    /\ UNCHANGED nonPl

\* _background_maintenance after its sleep: under the lock, drop the entries
\* that are not valid or are expired, then _ensure_pool_health
Maintenance ==
    /\ started = "running"
    /\ lock = "free"
    /\ LET kept == SelectSeq(tokens, Usable) IN
       /\ tokens' = kept
       /\ creating' = Min(creating + Needed(kept), MaxTasks)
    /\ tokens' # tokens \/ creating' # creating
    /\ UNCHANGED <<lock, started, health_tasks, next_token, now, stats, last_get, last_rate>>
    /\ UNCHANGED nonPl

\* _create_and_add_token: the broker answers; a token is appended under the lock
CreateAndAddToken(ok, tok) ==
    /\ creating > 0
    /\ creating' = creating - 1
    /\ IF ok
       THEN /\ lock = "free"
            /\ tok \in BrokerAnswers(next_token)
            /\ tokens' = Append(tokens, TokenInfo(tok, ExpiredLike(tokens, tok, FALSE), 0, 0))
            /\ next_token' = next_token + 1
            /\ stats' = [stats EXCEPT !.tokens_created = @ + 1]
       ELSE /\ tok = 1
            /\ UNCHANGED <<tokens, next_token, stats>>
    /\ UNCHANGED <<lock, started, health_tasks, now, last_get, last_rate>>
    /\ UNCHANGED nonPl

\* time passes: is_expired() turns true for the token string of an entry
Expire(i) ==
    /\ i \in DOMAIN tokens
    /\ ~tokens[i].expired
    /\ tokens' = [j \in DOMAIN tokens |->
                     IF tokens[j].token = tokens[i].token
                     THEN [tokens[j] EXCEPT !.expired = TRUE] ELSE tokens[j]]
    /\ UNCHANGED <<lock, started, health_tasks, creating, next_token, now, stats, last_get, last_rate>>
    /\ UNCHANGED nonPl

PlNext ==
    \/ PoolStart
    \/ \E k \in 0..pool_size : FillPool(k)
    \/ GetValidToken
    \/ GetEmergency
    \/ \E ok, exp \in BOOLEAN, tok \in 1..MaxTokens : EmergencyDone(ok, exp, tok)
    \/ \E f \in 1..MaxTokens : HandleRateLimit(f)
    \/ EnsurePoolHealth
    \/ Maintenance
    \/ \E ok \in BOOLEAN, tok \in 1..MaxTokens : CreateAndAddToken(ok, tok)
    \/ \E i \in 1..MaxTokens : Expire(i)

----------------------------------------------------------------------------
(* The hint injection of the recovery driver, applied to any packet *)

\* what a query can hold: user text, the markers, a tool name
QueryFragments == {"q", "SYS", "AUTO", "CONT", "read_files"}

RECURSIVE Queries(_)
\* the queries of at most n fragments
Queries(n) ==
    IF n = 0 THEN {<<>>}
    ELSE Queries(n - 1) \cup
         {Append(q, f) : q \in {r \in Queries(n - 1) : Len(r) = n - 1}, f \in QueryFragments}

\* the packets a handler can be given: any query, or no final user_query
AnyPackets ==
    {Packet("user_query", q) : q \in Queries(MaxQuery)} \cup
    {Packet("tool_call_result", <<>>), Packet("none", <<>>)}

IjInit ==
    /\ inj_pc = "choose"
    /\ inj_input = Packet("none", <<>>)
    /\ inj_packet = Packet("none", <<>>)
    /\ inj_prev = Packet("none", <<>>)
    /\ inj_log = <<>>

\* the packet the handler is entered with
ChoosePacket(p) ==
    /\ inj_pc = "choose"
    /\ inj_pc' = "apply"
    /\ inj_input' = p
    /\ inj_packet' = p
    /\ inj_prev' = p
    /\ UNCHANGED inj_log
    /\ UNCHANGED nonIj

\* the internal_error handler's mutation, on the packet as it is now
ApplyInternal(tool) ==
    /\ inj_pc = "apply"
    /\ Len(inj_log) < MaxApplications
    /\ inj_prev' = inj_packet
    /\ inj_packet' = InjectInternal(inj_packet, tool)
    /\ inj_log' = Append(inj_log, "internal")
    /\ UNCHANGED <<inj_pc, inj_input>>
    /\ UNCHANGED nonIj

\* the llm_unavailable handler's mutation, on the packet as it is now
ApplyLLM ==
    /\ inj_pc = "apply"
    /\ Len(inj_log) < MaxApplications
    /\ inj_prev' = inj_packet
    /\ inj_packet' = InjectLLM(inj_packet)
    /\ inj_log' = Append(inj_log, "llm")
    /\ UNCHANGED <<inj_pc, inj_input>>
    /\ UNCHANGED nonIj

IjNext ==
    \/ \E p \in AnyPackets : ChoosePacket(p)
    \/ \E t \in ErrTools : ApplyInternal(t)
    \/ ApplyLLM

----------------------------------------------------------------------------
(* The request handler: warp_request_handler.py *)

\* self.max_retries
max_retries == 2

\* the status of one request: an HTTP status, or 0 when client.request raised
RhStatuses == {0, 200, 429, 500}

NoRhResult == [kind |-> "none", status |-> 0, switch |-> "none"]

\* WarpRequestHandler.__init__
RhInit ==
    /\ rh_pc = "idle"
    /\ current_token = 0
    /\ rh_attempt = 0
    /\ rh_sent = <<>>
    /\ rh_result = NoRhResult

\* make_request is called; without a token it refreshes first
MakeRequest ==
    /\ rh_pc = "idle"
    /\ rh_pc' = IF current_token = 0 THEN "refresh" ELSE "send"
    /\ rh_attempt' = 0
    /\ rh_sent' = <<>>
    /\ rh_result' = NoRhResult
    /\ UNCHANGED current_token
    /\ UNCHANGED nonRh

\* _refresh_token: the token get_pooled_token, else get_valid_jwt, hands out
\* (fresh = 0: both raised, self.current_token is left as it is)
refresh_token(fresh) == IF fresh # 0 THEN fresh ELSE current_token

\* the first _refresh_token of make_request; its result is not looked at
InitialRefresh(fresh) ==
    /\ rh_pc = "refresh"
    /\ current_token' = refresh_token(fresh)
    /\ rh_pc' = "send"
    /\ UNCHANGED <<rh_attempt, rh_sent, rh_result>>
    /\ UNCHANGED nonRh

\* one turn of the loop: the request goes out with the Authorization header
\* of self.current_token and is answered with status (0: it raised)
SendRequest(status) ==
    /\ rh_pc = "send"
    /\ rh_sent' = Append(rh_sent, [token |-> current_token, status |-> status])
    /\ IF status = 429 /\ rh_attempt < max_retries
       THEN /\ rh_pc' = "switch"
            /\ UNCHANGED <<rh_attempt, rh_result>>
       ELSE IF status = 0 /\ rh_attempt < max_retries
       THEN /\ rh_pc' = "send"
            /\ rh_attempt' = rh_attempt + 1
            /\ UNCHANGED rh_result
       ELSE /\ rh_pc' = "idle"
            /\ rh_result' = [kind |-> IF status = 0 THEN "raised" ELSE "returned",
                             status |-> status, switch |-> "none"]
            /\ UNCHANGED rh_attempt
    /\ UNCHANGED current_token
    /\ UNCHANGED nonRh

\* _handle_rate_limit after a 429 with attempts left: backup is what
\* handle_token_rate_limit returned (0: None, or it raised), fresh is what the
\* _refresh_token it falls back to obtained (0: it failed)
HandleTokenRateLimit(backup, fresh) ==
    /\ rh_pc = "switch"
    /\ LET new == IF backup # 0 THEN backup ELSE fresh
       IN  IF new # 0
           THEN /\ current_token' = new
                /\ rh_attempt' = rh_attempt + 1
                /\ rh_pc' = "send"
                /\ UNCHANGED rh_result
           ELSE /\ rh_pc' = "idle"
                /\ rh_result' = [kind |-> "returned", status |-> 429, switch |-> "failed"]
                /\ UNCHANGED <<current_token, rh_attempt>>
    /\ UNCHANGED rh_sent
    /\ UNCHANGED nonRh

RhNext ==
    \/ MakeRequest
    \/ \E fresh \in 0..RhTokens : InitialRefresh(fresh)
    \/ \E status \in RhStatuses : SendRequest(status)
    \/ \E backup, fresh \in 0..RhTokens : HandleTokenRateLimit(backup, fresh)

----------------------------------------------------------------------------
(* Account rotation: warp_token_manager.py, MultiAccountTokenService.  The
   accounts are the indices 0 .. NumAccounts - 1 of self.accounts; they carry
   distinct account_ids, so that mark_account_failed finds the index of the
   account it is given.  get_next_account and mark_account_failed hold
   self.lock and await nothing inside it: each is one step. *)

AccountIndices == 0..(NumAccounts - 1)

Callers == 1..MaxCallers

\* max_retries of acquire_fresh_token
acquire_max_retries == Min(3, NumAccounts)

NotFailedAlways(i, failed) == TRUE

\* the test of the loop of get_next_account
NotFailed(i, failed) == i \notin failed

\* the loop of get_next_account, from self.current_index = idx
RECURSIVE ScanAccounts(_, _, _)
ScanAccounts(idx, failed, attempts) ==
    IF attempts >= NumAccounts
    THEN [kind |-> "raised", account |-> -1, index |-> idx]
    ELSE IF NotFailed(idx, failed)
    THEN [kind |-> "returned", account |-> idx, index |-> (idx + 1) % NumAccounts]
    ELSE ScanAccounts((idx + 1) % NumAccounts, failed, attempts + 1)

\* get_next_account: what it returns, and self.current_index and
\* self.failed_accounts after it
get_next_account(idx, failed) ==
    LET kept == IF Cardinality(failed) >= NumAccounts THEN {} ELSE failed
        r == ScanAccounts(idx, kept, 0)
    IN  [kind |-> r.kind, account |-> r.account, index |-> r.index, failed |-> kept]

\* mark_account_failed: self.failed_accounts after it
mark_account_failed(account, failed) ==
    IF account \in AccountIndices THEN failed \cup {account} ELSE failed

NoCaller == [pc |-> "idle", account |-> -1, attempt |-> 0]

NoCall == [kind |-> "none", account |-> -1, before |-> {}, after |-> {}]

\* MultiAccountTokenService.__init__
AcInit ==
    /\ current_index = 0
    /\ failed_accounts = {}
    /\ callers = [c \in Callers |-> NoCaller]
    /\ ac_last = NoCall
    /\ ac_prev = NoCall

\* a caller enters acquire_fresh_token
AcquireFreshToken(c) ==
    /\ callers[c].pc = "idle"
    /\ callers' = [callers EXCEPT ![c] = [pc |-> "next", account |-> -1, attempt |-> 0]]
    /\ UNCHANGED <<current_index, failed_accounts, ac_last, ac_prev>>
    /\ UNCHANGED nonAc

\* the end of one turn of the loop of acquire_fresh_token without a token
NextAttempt(caller) ==
    IF caller.attempt + 1 < acquire_max_retries
    THEN [caller EXCEPT !.pc = "next", !.attempt = caller.attempt + 1]
    ELSE NoCaller

\* one turn of the loop calls get_next_account; when that raises, the
\* handler marks the account of the turn before, if there was one
GetNextAccount(c) ==
    /\ callers[c].pc = "next"
    /\ LET r == get_next_account(current_index, failed_accounts)
       IN  /\ current_index' = r.index
           /\ ac_prev' = ac_last
           /\ ac_last' = [kind |-> r.kind, account |-> r.account,
                          before |-> failed_accounts, after |-> r.failed]
           /\ IF r.kind = "returned"
              THEN /\ failed_accounts' = r.failed
                   /\ callers' = [callers EXCEPT ![c].pc = "token", ![c].account = r.account]
              ELSE /\ failed_accounts' = mark_account_failed(callers[c].account, r.failed)
                   /\ callers' = [callers EXCEPT ![c] = NextAttempt(callers[c])]
    /\ UNCHANGED nonAc

\* WarpTokenService.acquire_fresh_token of the account answers: with a token
\* (ok), or with None or an exception, and then the account is marked failed
TokenAnswer(c, ok) ==
    /\ callers[c].pc = "token"
    /\ IF ok
       THEN /\ callers' = [callers EXCEPT ![c] = NoCaller]
            /\ UNCHANGED failed_accounts
       ELSE /\ failed_accounts' = mark_account_failed(callers[c].account, failed_accounts)
            /\ callers' = [callers EXCEPT ![c] = NextAttempt(callers[c])]
    /\ UNCHANGED <<current_index, ac_last, ac_prev>>
    /\ UNCHANGED nonAc

AcNext ==
    \/ \E c \in Callers : AcquireFreshToken(c)
    \/ \E c \in Callers : GetNextAccount(c)
    \/ \E c \in Callers, ok \in BOOLEAN : TokenAnswer(c, ok)

----------------------------------------------------------------------------
(* The one-shot sender send_protobuf_to_warp_api: api_client.py.  Its body
   after the status checks (the reading of the SSE lines, the joining of the
   text, the return of the text with the ids) follows an if / else whose two
   branches both leave the turn of the loop. *)

\* what the POST can answer; -1 stands for an exception raised by
\* client.stream
SpStatuses == {200, 401, 429, 500, -1}

\* the bodies of the responses that are not 200
SpBodies == {"", "quota", "oops"}

NoSpResult == [kind |-> "none", status |-> 0, content |-> "none"]

SpInit ==
    /\ sp_pc = "acquire"
    /\ sp_attempt = 0
    /\ sp_session_id = 0
    /\ sp_held = {}
    /\ error_content = "unbound"
    /\ sp_statuses = <<>>
    /\ sp_result = NoSpResult

\* manager.acquire_session(): a session with an access token and, when
\* withId, a session_id; or none (ok false).  The first one missing raises
\* RuntimeError, the retry's one missing returns an error.
SpAcquireSession(ok, withId) ==
    /\ sp_pc = "acquire"
    /\ IF ok
       THEN /\ sp_session_id' = IF withId THEN sp_attempt + 1 ELSE 0
            /\ sp_held' = sp_held \cup {sp_attempt + 1}
            /\ sp_pc' = "post"
            /\ UNCHANGED sp_result
       ELSE /\ IF sp_attempt = 0
               THEN sp_pc' = "raised" /\ UNCHANGED sp_result
               ELSE /\ sp_pc' = "returned"
                    /\ sp_result' = [kind |-> "no_retry_session", status |-> 0,
                                     content |-> "none"]
            /\ UNCHANGED <<sp_session_id, sp_held>>
    /\ UNCHANGED <<sp_attempt, error_content, sp_statuses>>
    /\ UNCHANGED nonSp

\* "if response.status_code != 200": error_content after it
ErrorContentAfter(st, body, before) ==
    IF st # 200 THEN (IF body = "" THEN "No error content" ELSE body) ELSE before

\* "if response.status_code == 429 and attempt == 0: ... continue / else:
\* ... return": the branch a response takes
SpBranch(st, att) == IF st = 429 /\ att = 0 THEN "retry" ELSE "error"

\* "if _pool_session_id: await manager.release_session(_pool_session_id)"
SpRelease(sessions, sid) == IF sid # 0 THEN sessions \ {sid} ELSE sessions

\* client.stream("POST", ...) and the handling of its status; the body of a
\* response is read only when the status is not 200
SpPost(st, body) ==
    /\ sp_pc = "post"
    /\ st \in {200, -1} => body = ""
    /\ sp_statuses' = Append(sp_statuses, [status |-> st, body |-> body])
    /\ IF st < 0
       THEN /\ sp_pc' = "raised"
            /\ UNCHANGED <<sp_attempt, sp_held, error_content, sp_result>>
       ELSE LET content == ErrorContentAfter(st, body, error_content)
            IN  /\ error_content' = content
                /\ IF SpBranch(st, sp_attempt) = "retry"
                   THEN /\ sp_held' = SpRelease(sp_held, sp_session_id)
                        /\ sp_attempt' = sp_attempt + 1
                        /\ sp_pc' = "acquire"
                        /\ UNCHANGED sp_result
                   ELSE IF content = "unbound"
                   THEN \* the log line of the else branch reads error_content
                        /\ sp_pc' = "raised"
                        /\ UNCHANGED <<sp_attempt, sp_held, sp_result>>
                   ELSE /\ sp_held' = SpRelease(sp_held, sp_session_id)
                        /\ sp_pc' = "returned"
                        /\ sp_result' = [kind |-> "error", status |-> st,
                                         content |-> content]
                        /\ UNCHANGED sp_attempt
    /\ UNCHANGED sp_session_id
    /\ UNCHANGED nonSp

SpNext ==
    \/ \E ok, withId \in BOOLEAN : SpAcquireSession(ok, withId)
    \/ \E st \in SpStatuses, body \in SpBodies : SpPost(st, body)

----------------------------------------------------------------------------
Init == PxInit /\ AnInit /\ NmInit /\ ApInit /\ PlInit /\ IjInit /\ RhInit /\ AcInit /\ SpInit

Next ==
    \/ \E e \in {"chat", "messages"}, s \in BOOLEAN, p \in Packets, v \in BOOLEAN :
          Receive(e, s, p, v)
    \/ StreamNext
    \/ NonStreamNext

Spec == Init /\ [][Next]_vars

SpecAnth == Init /\ [][AnNext]_vars

SpecNorm == Init /\ [][NmNext]_vars

SpecApi == Init /\ [][ApNext]_vars

SpecPool == Init /\ [][PlNext]_vars

\* the pool with its scheduling: an emergency acquisition that was started
\* ends (every HTTP call of acquire_fresh_token carries a timeout and its
\* exceptions are caught)
SpecPoolLive ==
    /\ Init
    /\ [][PlNext]_vars
    /\ WF_vars(\E ok, exp \in BOOLEAN, tok \in 1..MaxTokens : EmergencyDone(ok, exp, tok))

SpecInject == Init /\ [][IjNext]_vars

SpecHandler == Init /\ [][RhNext]_vars

SpecAccounts == Init /\ [][AcNext]_vars

SpecSend == Init /\ [][SpNext]_vars

----------------------------------------------------------------------------
(* Properties of the front end *)

\* the last n frames sent to the client
LastFrames(n) == SubSeq(out, Len(out) - n + 1, Len(out))

EndsWith(fs) == Len(out) >= Len(fs) /\ LastFrames(Len(fs)) = fs

StreamDone == pc = "done" /\ stream /\ httpStatus = StreamingStatus

\* C1: every streaming response of stream_openai_sse ends with the frame
\* "data: [DONE]", on every path (clean finish, upstream end without a finished
\* event, bridge HTTP error, recoverable error and retry, exhausted retry, any
\* other exception), and no frame is ever emitted after [DONE]: a [DONE] frame
\* is always the last frame sent so far, it is only ever sent by the step that
\* ends the generator, and a finished generator has sent it.
C1_DoneEndsEveryStream ==
    /\ \A i \in DOMAIN out : out[i] = DoneFrame => (i = Len(out) /\ pc = "done")
    /\ StreamDone => EndsWith(<<DoneFrame>>)

\* C1 witness: a stream that recovered once and whose second attempt then met a
\* bridge error is finished, with the error chunk and [DONE] as last frames
C1_Witness ==
    /\ StreamDone
    /\ retry_count = 1
    /\ last_status = 500
    /\ EndsWith(ErrorFrames)

\* C4: within one streaming request the recovery driver re-sends the packet at
\* most once for the internal_error kind and at most once for the
\* llm_unavailable kind; a recoverable error arriving while retry_count >= 1
\* emits the error text chunk and a terminating chunk (and [DONE]), ends the
\* stream, and no upstream request is issued afterwards.
C4_RecoveryBounded ==
    stream =>
        /\ recov.internal <= 1
        /\ recov.llm <= 1
        /\ retry_count = recov.internal + recov.llm
        /\ recov.exhausted =>
              /\ retry_count >= 1
              /\ pc = "done"
              /\ EndsWith(ExhaustedFrames)
              /\ Len(sent) = recov.postsAtExhaustion

\* C4 witness: a stream that re-sent after llm_unavailable, then met an
\* internal_error and gave up
C4_Witness ==
    /\ StreamDone
    /\ recov.exhausted
    /\ recov.llm = 1
    /\ lastErr = "internal"

\* C32: the recovery budget of a streaming request is shared by both
\* recoverable kinds: at most one recovery retry is made in total, so when the
\* attempt launched after an internal_error ends with llm_unavailable (or the
\* reverse) the driver emits the exhausted-retry error and stops, and one
\* request has at most two recovery-level attempts (invocations of
\* stream_openai_sse).
C32_SharedRecoveryBudget ==
    stream =>
        /\ recov.internal + recov.llm <= 1
        /\ retry_count + 1 <= 2
        /\ ((recov.internal = 1 /\ lastErr = "llm") \/ (recov.llm = 1 /\ lastErr = "internal")) =>
              /\ recov.exhausted
              /\ pc = "done"
              /\ EndsWith(ExhaustedFrames)
              /\ Len(sent) = recov.postsAtExhaustion

\* C32 witness: the attempt launched after an internal_error recovery ended
\* with llm_unavailable, and the driver gave up
C32_Witness ==
    /\ StreamDone
    /\ recov.internal = 1
    /\ recov.llm = 0
    /\ lastErr = "llm"
    /\ recov.exhausted
    /\ EndsWith(ExhaustedFrames)

\* the response is the one of an upstream failure
SurfacedAsUpstreamError ==
    IF stream THEN EndsWith(ErrorFrames) ELSE httpStatus = 502

----------------------------------------------------------------------------
(* Properties of the Anthropic translator *)

IsStart(e) == e.type = "content_block_start"
IsStop(e) == e.type = "content_block_stop"

\* positions of an_out holding a message_delta
DeltaPositions == {k \in DOMAIN an_out : an_out[k].type = "message_delta"}

\* C2: in one streaming response of stream_anthropic_sse, the index of
\* successive content_block_start events never decreases, and every
\* content_block_start is followed by exactly one content_block_stop with the
\* same index before message_delta is emitted.
C2_BlocksMatched ==
    /\ \A i, j \in DOMAIN an_out :
          (i < j /\ IsStart(an_out[i]) /\ IsStart(an_out[j]))
              => an_out[i].index <= an_out[j].index
    /\ \A k \in DeltaPositions : \A i \in 1..(k - 1) :
          IsStart(an_out[i]) =>
              Cardinality({j \in (i + 1)..(k - 1) :
                              IsStop(an_out[j]) /\ an_out[j].index = an_out[i].index}) = 1

\* C2 witness: two tool calls were translated and message_delta was emitted
C2_Witness ==
    /\ an_pc = "done"
    /\ DeltaPositions # {}
    /\ Cardinality({i \in DOMAIN an_in : an_in[i] = "tool_new"}) >= 2

\* C3: every streaming Anthropic response ends with a message_stop event,
\* including when the wrapped stream carries an error chunk, when it ends with
\* [DONE] without any chunk carrying a finish_reason, and when the translator
\* raises.
C3_EndsWithMessageStop ==
    an_pc = "done" => (an_out # <<>> /\ an_out[Len(an_out)] = MessageStop)

\* C3 witness: the wrapped stream ended with [DONE] and no finish_reason
C3_Witness ==
    /\ an_pc = "done"
    /\ an_in # <<>>
    /\ an_in[Len(an_in)] = "[DONE]"

IsBlockDelta(e) == e.type = "content_block_delta"

\* the block started at position i of an_out is stopped before position k
StoppedBetween(i, k) ==
    \E j \in (i + 1)..(k - 1) : IsStop(an_out[j]) /\ an_out[j].index = an_out[i].index

\* C33: in one Anthropic streaming response no two content_block_start events
\* carry the same index and at most one content block is open at any time: a
\* new block is started only after the previous block received its
\* content_block_stop, and every content_block_delta carries the index of the
\* currently open block.
C33_OneOpenBlock ==
    /\ \A i, j \in DOMAIN an_out :
          (i < j /\ IsStart(an_out[i]) /\ IsStart(an_out[j])) =>
              /\ an_out[i].index # an_out[j].index
              /\ StoppedBetween(i, j)
    /\ \A k \in DOMAIN an_out :
          IsBlockDelta(an_out[k]) =>
              \E i \in 1..(k - 1) :
                  /\ IsStart(an_out[i])
                  /\ an_out[i].index = an_out[k].index
                  /\ ~StoppedBetween(i, k)
                  /\ \A j \in (i + 1)..(k - 1) : ~IsStart(an_out[j])

\* C33 witness: a text block was stopped by a tool call, whose block was
\* started with the next index and received a delta
C33_Witness ==
    /\ Len(an_in) >= 2
    /\ an_in[1] = "text"
    /\ an_in[2] = "tool_new"
    /\ \E i \in DOMAIN an_out : an_out[i] = BlockStop(0)
    /\ \E i \in DOMAIN an_out : an_out[i] = BlockStart(1)

\* C37: when the wrapped OpenAI stream terminates with an error chunk
\* (finish_reason "error"), the Anthropic stream does not report a normal
\* completion: it never emits a message_delta with stop_reason end_turn for a
\* response that failed upstream.
C37_ErrorIsNotEndTurn ==
    (\E i \in DOMAIN an_in : an_in[i] = "error") =>
        \A k \in DOMAIN an_out : an_out[k] # MessageDelta("end_turn")

\* C37 witness: the wrapped stream sent text and then its error chunk, and
\* the translation is complete
C37_Witness ==
    /\ an_pc = "done"
    /\ an_in = <<"text", "error">>
    /\ stream_completed
    /\ an_out[Len(an_out)] = MessageStop

\* positions of an_out holding a message_stop
StopPositions == {k \in DOMAIN an_out : an_out[k] = MessageStop}

\* C28: in the Anthropic translator, once a chunk with a finish_reason has
\* been processed, message_delta and then message_stop are emitted, each
\* exactly once, and no event at all is emitted for any input that arrives
\* afterwards.
C28_CompletedStreamIsFinal ==
    stream_completed =>
        /\ Len(an_out) >= 2
        /\ DeltaPositions = {Len(an_out) - 1}
        /\ StopPositions = {Len(an_out)}
        /\ an_pc = "done"

\* C28 witness: after a chunk with a finish_reason was processed, the wrapped
\* stream held a text delta and a second chunk with a finish_reason
C28_Witness ==
    /\ stream_completed
    /\ \E i, j \in DOMAIN an_late : i < j /\ an_late[i] = "text" /\ an_late[j] \in FinishReasons

----------------------------------------------------------------------------
(* Properties of the normalizer and the request assembler *)

\* the position of the first assistant message after position i (Len + 1 if none)
NextAssistant(h, i) ==
    IF \E j \in (i + 1)..Len(h) : h[j].role = "assistant"
    THEN CHOOSE j \in (i + 1)..Len(h) :
            /\ h[j].role = "assistant"
            /\ \A k \in (i + 1)..(j - 1) : h[k].role # "assistant"
    ELSE Len(h) + 1

\* positions of the tool results that follow position i up to the next assistant
FollowingResults(h, i) ==
    {j \in (i + 1)..(NextAssistant(h, i) - 1) : h[j].role = "tool"}

\* C5: in the output of the normalizer, for every assistant message with
\* tool calls, the tool results that follow it up to the next assistant message
\* carry exactly the ids of its tool calls: none missing, none extra, none twice.
C5_ResultsMatchToolCalls ==
    nm_pc # "request" =>
        \A i \in DOMAIN history :
            HasToolCalls(history[i]) =>
                LET following == FollowingResults(history, i) IN
                /\ {history[j].tool_call_id : j \in following} = Range(history[i].tool_calls)
                /\ \A j, k \in following :
                      history[j].tool_call_id = history[k].tool_call_id => j = k

\* C5 witness: a normalized history that holds an assistant message with a
\* tool call followed by its result
C5_Witness ==
    /\ nm_pc = "normalized"
    /\ \E i \in DOMAIN history :
          /\ HasToolCalls(history[i])
          /\ i < Len(history)
          /\ history[i + 1].role = "tool"
          /\ history[i + 1].tool_call_id \in Range(history[i].tool_calls)

\* C6: for every non-empty normalized history, whatever the role of its last
\* message, the packet built holds at least one entry in
\* input.user_inputs.inputs.
C6_PacketHasInput ==
    (nm_pc = "built" /\ history # <<>>) => Len(inputs) >= 1

\* C6 witness: a packet was built from a normalized history ending with a
\* tool result
C6_Witness ==
    /\ nm_pc = "built"
    /\ history[Len(history)].role = "tool"
    /\ Len(inputs) = 1

\* the i-th message of the history has an entry in the task_context
InTaskContext(i) == \E k \in DOMAIN task_messages : task_messages[k].src = i

\* the i-th message of the history is the one the final input is made from
IsFinalInput(i) == inputs # <<>> /\ InputSource(history) = i

\* C34: every message of the normalized history is represented in the packet
\* exactly once, either as a task_context message or as the final input: the
\* message skipped by map_history_to_warp_messages is the same message that
\* attach_user_and_tools_to_inputs turns into the final input, so no user
\* message is lost when the history ends with an assistant or system message.
C34_EveryMessageOnce ==
    nm_pc = "built" =>
        /\ LastInputIndex(history, Len(history)) = InputSource(history)
        /\ \A i \in DOMAIN history :
              (history[i].role = "user" \/ IsToolResult(history[i])) =>
                  (InTaskContext(i) # IsFinalInput(i))

\* C34 witness: a packet was built from a history of three messages ending
\* with a user message: the earlier messages are in the task_context, the last
\* one is the final input
C34_Witness ==
    /\ nm_pc = "built"
    /\ Len(history) = 3
    /\ history[3].role = "user"
    /\ InTaskContext(1)
    /\ InTaskContext(2)
    /\ ~InTaskContext(3)
    /\ IsFinalInput(3)

\* C24: no tool-result message with empty content appears in the normalized
\* history: every tool result that is kept and whose content was empty carries
\* the literal "No content", wherever it stands in the history.
C24_NoEmptyToolResult ==
    nm_pc # "request" =>
        \A i \in DOMAIN history :
            history[i].role = "tool" => ~EmptyContent(history[i].content)

\* C24 witness: a tool result without content was kept and filled
C24_Witness ==
    /\ nm_pc = "normalized"
    /\ \E i \in DOMAIN messages : messages[i].role = "tool" /\ EmptyContent(messages[i].content)
    /\ \E i \in DOMAIN history : history[i].role = "tool" /\ history[i].content = <<"No content">>

\* C25: history normalization is idempotent: for every history H, applying
\* the normalizer (Pass A then Pass B) to normalize(H) returns normalize(H).
C25_NormalizeIdempotent ==
    nm_pc # "request" => Normalized(history) = history

\* C25 witness: a history the normalizer changed, with a tool call and its
\* result kept
C25_Witness ==
    /\ nm_pc = "normalized"
    /\ history # messages
    /\ \E i \in DOMAIN history : HasToolCalls(history[i])
    /\ \E i \in DOMAIN history : IsToolResult(history[i])

\* C26: for the history user "q", assistant with tool calls t1 and t2, tool
\* t1 = "r1", user "interrupt", tool t2 = "", the normalized sequence ends, in
\* this order, with the assistant message carrying t1 and t2, tool t1 with
\* "r1", tool t2 with "No content", user "interrupt", and no tool-call id is
\* dropped.
C26_AdjacencyRepaired ==
    (nm_pc # "request" /\ messages = AdjacencyRepair) =>
        /\ Len(history) >= 4
        /\ SubSeq(history, Len(history) - 3, Len(history)) =
               << Msg("assistant", <<>>, <<"t1", "t2">>, ""),
                  Msg("tool", <<"r1">>, <<>>, "t1"),
                  Msg("tool", <<"No content">>, <<>>, "t2"),
                  Msg("user", <<"interrupt">>, <<>>, "") >>
        /\ AssistantTcIds(history) = {"t1", "t2"}
        /\ ResultIds(history) = {"t1", "t2"}

\* C26 witness: the request of the scenario was normalized
C26_Witness ==
    /\ nm_pc = "normalized"
    /\ messages = AdjacencyRepair
    /\ history # <<>>

\* a message that belongs to no tool exchange: user, system, or an assistant
\* message without tool calls
IsUnrelated(m) == m.role \in {"user", "system"} \/ (m.role = "assistant" /\ m.tool_calls = <<>>)

\* the unrelated messages of h in order, each as its role and its text
\* segments one by one (a user message with list content counts segment by
\* segment)
RECURSIVE UnrelatedTexts(_)
UnrelatedTexts(h) ==
    IF h = <<>> THEN <<>>
    ELSE LET m == Head(h) IN
         (IF IsUnrelated(m) THEN [k \in DOMAIN m.content |-> <<m.role, m.content[k]>>] ELSE <<>>)
         \o UnrelatedTexts(Tail(h))

\* a is b with some elements left out
RECURSIVE IsSubsequence(_, _)
IsSubsequence(a, b) ==
    IF a = <<>> THEN TRUE
    ELSE IF b = <<>> THEN FALSE
    ELSE IF Head(a) = Head(b) THEN IsSubsequence(Tail(a), Tail(b))
    ELSE IsSubsequence(a, Tail(b))

\* C27: the normalizer preserves the relative order of unrelated messages:
\* the user, system and plain assistant (no tool-call) messages appear in the
\* normalized history in the same relative order as in the input, and none of
\* them is dropped.
C27_UnrelatedOrderKept ==
    nm_pc # "request" =>
        IsSubsequence(UnrelatedTexts(messages), UnrelatedTexts(history))

\* C27 witness: the normalizer moved a message of a request that holds two
\* unrelated messages
C27_Witness ==
    /\ nm_pc = "normalized"
    /\ Len(SelectSeq(messages, IsUnrelated)) >= 2
    /\ \E i \in DOMAIN messages : i <= Len(history) /\ history[i] # messages[i]
    /\ Len(history) = Len(messages)

----------------------------------------------------------------------------
(* Properties of the upstream streamer *)

ApEnded == ap_pc \in {"returned", "raised"}

\* what holds of the POSTs of one call whether or not a retry session is found:
\* at most two POSTs; a second POST only after a 429 on the first, with the
\* first session reported blocked and another session in use; a non-200 that
\* is not a first 429 ends the call with an error
ApPostsBounded ==
    /\ Len(statuses) <= 2
    /\ (statuses # <<>> /\ statuses[1] = 429) => 1 \in blocked
    /\ Len(statuses) = 2 => (statuses[1] = 429 /\ session = 2 /\ 1 \notin held)
    /\ blocked \subseteq {1}
    /\ (statuses # <<>> /\ statuses[Len(statuses)] # 200
           /\ ~(Len(statuses) = 1 /\ statuses[1] = 429))
          => (ApEnded /\ ap_result \in {"http_error", "raised"})

\* C8 (as stated): in one call, a 429 on the first attempt causes the
\* credential to be reported blocked and exactly one further attempt with a
\* newly acquired credential; a 429 on the second attempt or any other non-200
\* ends the call with an error and no further attempt; at most two POSTs.
C8_Original ==
    /\ ApPostsBounded
    /\ (ApEnded /\ statuses # <<>> /\ statuses[1] = 429) => Len(statuses) = 2

\* C8 (amended): as above, but the further attempt after a first 429 is made
\* only if a new session can be acquired: when acquire_session then returns
\* none, the call ends with an error after its single POST.
C8_OneRetryAfter429 ==
    /\ ApPostsBounded
    /\ (ApEnded /\ statuses # <<>> /\ statuses[1] = 429) =>
          \/ Len(statuses) = 2
          \/ (Len(statuses) = 1 /\ ap_result = "no_retry_session" /\ session = 1)

\* C8 witness: a first 429, then a second POST with the new session, answered
\* 429 again, ended the call with an error
C8_Witness ==
    /\ ap_pc = "returned"
    /\ statuses = <<429, 429>>
    /\ ap_result = "http_error"
    /\ session = 2

\* C9: however the exchange ends (200 fully streamed, non-200, 429 and retry,
\* no session for the retry, an exception or disconnect during streaming), no
\* session acquired for it remains held after the call returns or raises.
C9_NoSessionHeldAtEnd ==
    ApEnded => held = {}

\* C9 witness: a call that went through 429 and the retry returned with
\* nothing held
C9_Witness ==
    /\ ap_pc = "returned"
    /\ statuses = <<429, 200>>
    /\ held = {}

\* C23: on the streaming path, the output produced from upstream frame k is
\* emitted towards the client before upstream frame k+1 is awaited: no stage
\* between the upstream connection and the client collects the whole response
\* before emitting its first chunk.  While the streamer awaits the next
\* upstream frame, the SSE route has yielded a frame for every event read.
C23_FramesEmittedAsRead ==
    ap_pc = "streaming" => Len(agen_out) >= Len(parsed_events)

\* C23 witness: the streamer awaits the third upstream frame of a 200 response
C23_Witness ==
    /\ ap_pc = "streaming"
    /\ Len(parsed_events) = 2
    /\ statuses[Len(statuses)] = 200

\* C30: an upstream exchange that exceeds its time budget surfaces a
\* non-recoverable error for the request: after a timeout the exchange has
\* ended with the exception and no further upstream request is sent.
C30_TimeoutIsFinal ==
    wrap.timeouts > 0 =>
        /\ ap_pc = "raised"
        /\ wrap.posts = wrap.postsAtTimeout

\* C30 witness: the upstream answered 200 and the read of its stream timed
\* out, after which the exchange ended
C30_Witness ==
    /\ wrap.timeouts > 0
    /\ wrap.postsAtTimeout >= 1
    /\ ap_pc \in {"returned", "raised"}

----------------------------------------------------------------------------
(* Properties of the credential pool *)

\* C10: every credential get_valid_token returns is, at the moment it is
\* returned, in status valid, not expired and not rate-limited, and its
\* last_used and use_count have been updated by that call (last_used is the
\* time of the call, use_count one more than before it), under any
\* interleaving with handle_rate_limit, maintenance and background creations.
C10_ReturnedTokenValid ==
    last_get.ret = "token" =>
        /\ last_get.entry.token = last_get.token
        /\ last_get.entry.status = "valid"
        /\ ~last_get.entry.expired
        /\ last_get.entry.last_used = last_get.at
        /\ last_get.entry.use_count = last_get.before + 1

\* C10 witness: get_valid_token found no usable entry in a pool that held a
\* rate-limited entry, and returned the token of its emergency acquisition
C10_Witness ==
    /\ last_get.ret = "token"
    /\ last_get.via = "emergency"
    /\ \E i \in DOMAIN tokens : tokens[i].status = "rate_limited"
    /\ \E i \in DOMAIN tokens : tokens[i] = last_get.entry

\* C11: handle_rate_limit(t) marks the credential t as rate-limited and,
\* whenever it returns a credential, that credential is valid (status valid
\* and not expired) and different from t, whether it was taken from the pool
\* or acquired by the emergency acquisition.
C11_BackupValidAndDifferent ==
    last_rate.ret = "token" =>
        /\ last_rate.marked
        /\ last_rate.token # last_rate.failed
        /\ last_rate.entry.token = last_rate.token
        /\ last_rate.entry.status = "valid"
        /\ ~last_rate.entry.expired

\* C11 witness: handle_rate_limit(t) found no backup in a pool that still
\* holds the entry of t, and returned the token of its emergency acquisition
C11_Witness ==
    /\ last_rate.ret = "token"
    /\ last_rate.via = "emergency"
    /\ \E i \in DOMAIN tokens : tokens[i].token = last_rate.failed
    /\ \E i \in DOMAIN tokens : tokens[i] = last_rate.entry

\* C29: a request whose first upstream attempt is answered with 429 and whose
\* rotation yields a replacement credential increases the pool statistics
\* rate_limit_hits by exactly 1 and successful_switches by exactly 1, whether
\* the replacement comes from the pool or from the emergency acquisition.
C29_RotationCounted ==
    last_rate.ret = "token" =>
        /\ last_rate.after.rate_limit_hits = last_rate.before.rate_limit_hits + 1
        /\ last_rate.after.successful_switches = last_rate.before.successful_switches + 1

\* C29 witness: handle_rate_limit returned a replacement taken from the pool
\* and both statistics went up by one
C29_Witness ==
    /\ last_rate.ret = "token"
    /\ last_rate.via = "pool"
    /\ last_rate.after.rate_limit_hits = last_rate.before.rate_limit_hits + 1
    /\ last_rate.after.successful_switches = last_rate.before.successful_switches + 1

\* C35: a credential that has been reported through handle_rate_limit is
\* never returned by any later get_valid_token or handle_rate_limit call,
\* under any interleaving with maintenance and background acquisitions and
\* also when the same token string is present in the pool more than once.
C35_ReportedNeverReturned ==
    /\ last_get.ret = "token" => last_get.token \notin last_get.reported
    /\ last_rate.ret = "token" => last_rate.token \notin last_rate.earlier

\* C35 witness: a token was reported, and a later get_valid_token returned
\* another token from a pool that still holds the reported one, rate-limited
C35_Witness ==
    /\ last_get.ret = "token"
    /\ last_get.reported # {}
    /\ last_get.token \notin last_get.reported
    /\ \E i \in DOMAIN tokens :
           tokens[i].token \in last_get.reported /\ tokens[i].status = "rate_limited"

Converged ==
    /\ started = "running"
    /\ lock = "free"
    /\ health_tasks = 0
    /\ creating = 0
    /\ SelectSeq(tokens, Usable) = tokens

\* C12: once requests have stopped, maintenance has run and every launched
\* acquisition has completed, the pool holds at most pool_size credentials,
\* none of them expired and none rate-limited.
C12_ConvergedPoolBounded ==
    Converged =>
        /\ Len(tokens) <= pool_size
        /\ \A i \in DOMAIN tokens : tokens[i].status = "valid" /\ ~tokens[i].expired

\* C12 witness: the pool is at rest with exactly pool_size credentials after
\* requests, a rate-limit report and background acquisitions
C12_Witness ==
    /\ Converged
    /\ Len(tokens) = pool_size
    /\ stats.total_requests > 0
    /\ stats.rate_limit_hits > 0

\* what the pool stores of its entries (is_expired() is computed from the
\* token and the clock, it is not stored)
Stored(toks) ==
    [i \in DOMAIN toks |-> [token |-> toks[i].token, status |-> toks[i].status,
                            last_used |-> toks[i].last_used,
                            use_count |-> toks[i].use_count]]

\* C13: every mutation of the pool (append, eviction, change of a status, of
\* last_used or of use_count) is performed while the pool lock is held: the
\* entries never change while another operation holds the lock, the initial
\* fill of start() and the background acquisitions included.
C13_MutationsUnderLock ==
    [][Stored(tokens') # Stored(tokens) => (lock = "free" \/ lock' = "free")]_vars

\* C13 witness: while get_valid_token holds the lock and awaits its emergency
\* acquisition, which it began because no entry was usable, the pool holds a
\* usable entry
C13_Witness ==
    /\ lock = "get"
    /\ \E i \in DOMAIN tokens : Usable(tokens[i])

----------------------------------------------------------------------------
(* Properties of the OpenAI stream *)

\* positions of the opening chunk in the frames emitted so far
RolePositions == {i \in DOMAIN out : out[i] = RoleChunk}

\* C14 as stated: across a whole streaming response, a recovery retry
\* included, the opening chunk (delta.role = "assistant") is emitted exactly
\* once and is the first chunk.
C14_Original ==
    (stream /\ out # <<>>) => RolePositions = {1}

\* C14: the opening chunk is emitted at most once, the retry invocation does
\* not emit it again, and it is the first chunk of every response for which
\* an upstream request was made; the only response without it is the error
\* chunk and [DONE] of an initial invocation whose token counting raised
\* before anything was sent upstream.
C14_OpeningChunkOnce ==
    (stream /\ out # <<>>) =>
        \/ RolePositions = {1}
        \/ RolePositions = {} /\ out = ErrorFrames /\ sent = <<>> /\ retry_count = 0

\* C14 witness: a streaming response is complete after a recovery retry whose
\* attempt produced chunks
C14_Witness ==
    /\ stream
    /\ pc = "done"
    /\ retry_count = 1
    /\ Len(sent) >= 2
    /\ \E i \in DOMAIN out : out[i].att = 1

\* positions of the frames produced for an upstream event
EventPositions == {i \in DOMAIN out : out[i].n > 0}

\* frame i was produced for an upstream event that precedes, or is, the one
\* frame j was produced for
NotAfter(i, j) ==
    \/ out[i].att < out[j].att
    \/ out[i].att = out[j].att /\ out[i].n <= out[j].n

\* C15: within one request the chunks are emitted in the order of the
\* upstream events that produced them, and on a recovery retry the
\* auto-recovering notice chunk is emitted after every chunk of the failed
\* attempt and before the first chunk produced by the retried attempt.
C15_ChunksInUpstreamOrder ==
    stream =>
        /\ \A i, j \in EventPositions : i < j => NotAfter(i, j)
        /\ \A i \in EventPositions :
               \E k \in DOMAIN upstream :
                   upstream[k].att = out[i].att /\ upstream[k].n = out[i].n
        /\ retry_count = 0 => \A i \in EventPositions : out[i].att = 0
        /\ retry_count = 1 =>
               \E p \in DOMAIN out :
                   /\ out[p] = ContentChunk("NOTICE")
                   /\ \A i \in EventPositions :
                          /\ out[i].att = 0 => i < p
                          /\ out[i].att = 1 => i > p

\* C15 witness: both the failed attempt and the retried attempt produced
\* chunks from upstream events
C15_Witness ==
    /\ stream
    /\ retry_count = 1
    /\ \E i \in EventPositions : out[i].att = 0
    /\ \E i \in EventPositions : out[i].att = 1

\* the upstream text deltas consumed, in order: where each came from and its text
UpstreamTextDeltas ==
    LET ts == SelectSeq(upstream, LAMBDA e : e.ev = "text") IN
    [k \in DOMAIN ts |-> <<ts[k].att, ts[k].n, "a">>]

IsContent(c) == c.kind = "content"

\* the content deltas emitted, in order: where each came from and its text
ContentDeltas ==
    LET cs == SelectSeq(out, IsContent) IN
    [k \in DOMAIN cs |-> <<cs[k].att, cs[k].n, cs[k].text>>]

\* content the translator writes itself: the context-reset notice, the
\* auto-recovering notice, the error text of an exhausted recovery
OwnTexts == {"RESET", "NOTICE", "ERRTEXT"}

IsUpstreamContent(c) == c.kind = "content" /\ c.text \notin OwnTexts

\* the content deltas emitted other than the translator's own
ContentDeltasFromUpstream ==
    LET cs == SelectSeq(out, IsUpstreamContent) IN
    [k \in DOMAIN cs |-> <<cs[k].att, cs[k].n, cs[k].text>>]

\* C16 as stated: the content deltas emitted on the OpenAI stream are exactly
\* the upstream text deltas, in upstream-event order (nothing added, dropped
\* or reordered).
C16_Original ==
    stream => ContentDeltas = UpstreamTextDeltas

\* C16: every upstream text delta is emitted as one content delta, unchanged
\* and in upstream-event order, and the only other content deltas are the
\* translator's own (the context-reset notice produced for an
\* update_task_description event, the auto-recovering notice and the error
\* text of an exhausted recovery, both emitted by the driver).
C16_TextDeltasPreserved ==
    stream =>
        /\ ContentDeltasFromUpstream = UpstreamTextDeltas
        /\ \A i \in DOMAIN out :
               (out[i].kind = "content" /\ out[i].text \in OwnTexts) =>
                   IF out[i].text = "RESET"
                   THEN \E k \in DOMAIN upstream :
                            /\ upstream[k].ev = "reset"
                            /\ upstream[k].att = out[i].att
                            /\ upstream[k].n = out[i].n
                   ELSE out[i].n = 0

\* C16 witness: text deltas were consumed in the failed and in the retried
\* attempt
C16_Witness ==
    /\ stream
    /\ \E k \in DOMAIN upstream : upstream[k].ev = "text" /\ upstream[k].att = 0
    /\ \E k \in DOMAIN upstream : upstream[k].ev = "text" /\ upstream[k].att = 1

\* C17: the terminating chunk of a clean finished event has finish_reason
\* tool_calls if any tool-call chunk was emitted in the response before it and
\* stop otherwise, and [DONE] is emitted after it.
C17_FinishReasonReflectsToolCalls ==
    stream =>
        \A i \in EventPositions :
            out[i].kind = "finish" =>
                /\ out[i].text = IF \E j \in 1..(i - 1) : out[j].kind = "tool_calls"
                                 THEN "tool_calls" ELSE "stop"
                /\ pc = "done" => \E j \in (i + 1)..Len(out) : out[j] = DoneFrame

\* C17 witness: a response is complete whose only tool-call chunk came from a
\* call_mcp_tool event and was followed by a clean finished event
C17_Witness ==
    /\ stream
    /\ pc = "done"
    /\ \E i, j \in EventPositions :
           /\ i < j
           /\ out[i].kind = "tool_calls"
           /\ out[j] = [FinishChunk("tool_calls") EXCEPT !.att = out[i].att, !.n = out[i].n + 1]

\* C22: when the upstream answers a streaming request with a non-200, non-429
\* status, the client's stream contains an error chunk followed by `data:
\* [DONE]`, end to end through the bridge's SSE route and the OpenAI
\* translator.
C22_UpstreamErrorChunk ==
    (stream /\ pc = "done" /\ upstream # <<>> /\ upstream[Len(upstream)].ev = "http_error") =>
        EndsWith(ErrorFrames)

\* C22 witness: a streaming response is complete whose upstream exchange was
\* answered with an error status, reported by the bridge as a data frame
C22_Witness ==
    /\ stream
    /\ pc = "done"
    /\ upstream = <<[att |-> 0, n |-> 1, ev |-> "http_error"]>>
    /\ last_status = 200
    /\ out[Len(out)] = DoneFrame

\* positions of the chunks of the response that carry a finish_reason
FinishPositions == {i \in DOMAIN out : out[i].kind = "finish"}

\* the generator ended in its handler "except Exception"
EndedByException == EndsWith(ErrorFrames)

\* C31: every streaming OpenAI response that is not terminated by an exception
\* contains exactly one chunk with a non-null finish_reason, and that chunk is
\* the last chunk before `data: [DONE]`; also when the upstream sends no
\* finished event, when it sends more than one, and when the bridge reports
\* an upstream error as a data frame.
C31_ExactlyOneFinishChunk ==
    (StreamDone /\ ~EndedByException) =>
        /\ Len(out) >= 2
        /\ FinishPositions = {Len(out) - 1}
        /\ out[Len(out)] = DoneFrame

\* C31 witness: a complete response whose upstream sent text and one clean
\* finished event as its last event: one terminating chunk, then [DONE]
C31_Witness ==
    /\ StreamDone
    /\ ~EndedByException
    /\ Len(upstream) = 2
    /\ upstream[1].ev = "text"
    /\ upstream[2].ev = "finished"
    /\ FinishPositions = {Len(out) - 1}
    /\ out[Len(out)] = DoneFrame

----------------------------------------------------------------------------
(* Properties of the recovery driver *)

\* the packet POSTed first after the latest recovery was prepared
RetryPacket == sent[recov.postsAtRecovery + 1]

RetrySent == Len(sent) > recov.postsAtRecovery

\* C18: after the first upstream attempt of a streaming request finished with
\* an internal error naming tool T, the packet sent on the retry has a final
\* user_query whose query contains the recovery marker and the tool name T.
C18_RetryPacketNamesTool ==
    (stream /\ recov.internal = 1 /\ restricted_tools # {} /\ RetrySent) =>
        /\ RetryPacket.last = "user_query"
        /\ "SYS" \in Range(RetryPacket.query)
        /\ restricted_tools \subseteq Range(RetryPacket.query)

\* C18 witness: the retry of a streaming request was sent after an internal
\* error naming read_files, for a packet that ends with a user_query
C18_Witness ==
    /\ stream
    /\ recov.internal = 1
    /\ restricted_tools = {"read_files"}
    /\ RetrySent
    /\ sent[1].last = "user_query"

\* C20: recovery works on a deep copy: once a recovery retry has been prepared
\* and sent, in the streaming and in the non-streaming path, the packet of the
\* failed attempt still has the value it was sent with, whatever was appended
\* to the packet of the retry.
C20_FailedPacketUnchanged ==
    sent # <<>> => origPacket = sent[1]

\* C20 witness: a recovery retry whose packet received a hint has been sent
C20_Witness ==
    /\ recov.internal + recov.llm >= 1
    /\ RetrySent
    /\ RetryPacket # sent[1]
    /\ pc = "done"

\* the events collected from the first response hold finished.internal_error
\* or finished.llm_unavailable
FirstResponseFailed ==
    /\ recov.collected # <<>>
    /\ recov.collected[1] \in {"ie_tool", "ie_word", "ie_plain", "llm"}

\* the recovery marker that answers what the first response held
HintFor(kind) == IF kind = "llm" THEN "AUTO" ELSE "SYS"

\* C21: in the non-streaming path, when the collected events contain
\* finished.internal_error or finished.llm_unavailable, the handler re-sends a
\* packet carrying the corresponding recovery hint, and it sends exactly one
\* such recovery retry per request.
C21_NonStreamRecoversOnce ==
    (~stream /\ pc = "done" /\ FirstResponseFailed) =>
        /\ recov.internal + recov.llm = 1
        /\ RetrySent
        /\ HintFor(recov.collected[1]) \in Range(RetryPacket.query)

\* C21 witness: a non-streaming chat completion whose first response held an
\* internal error naming a tool was re-sent once, with the hint, and answered
C21_Witness ==
    /\ ~stream
    /\ endpoint = "chat"
    /\ pc = "done"
    /\ recov.collected = <<"ie_tool", "clean">>
    /\ recov.internal = 1
    /\ recov.llm = 0
    /\ "SYS" \in Range(RetryPacket.query)
    /\ httpStatus = 200

\* how often the fragment f occurs in the query q
Occurrences(f, q) == Cardinality({i \in DOMAIN q : q[i] = f})

\* C19: the hint injection is idempotent: applied to a packet that already
\* received it, it yields the same packet as applied once, for either handler
\* and any tool names, so the recovery marker the driver appends never occurs
\* twice in the final query (unless the query it was given already held it
\* more than once).
C19_InjectionIdempotent ==
    /\ \A t1, t2 \in ErrTools :
           InjectInternal(InjectInternal(inj_packet, t1), t2) = InjectInternal(inj_packet, t1)
    /\ InjectLLM(InjectLLM(inj_packet)) = InjectLLM(inj_packet)
    /\ (Len(inj_log) >= 2 /\ inj_log[Len(inj_log)] = inj_log[Len(inj_log) - 1]) =>
           inj_packet = inj_prev
    /\ \A f \in {"SYS", "AUTO"} :
           Occurrences(f, inj_packet.query) <= Occurrences(f, inj_input.query)
           \/ Occurrences(f, inj_packet.query) = 1

\* C19 witness: the internal_error injection was applied twice to a user_query
\* that held no marker, and the first application appended the hint
C19_Witness ==
    /\ inj_log = <<"internal", "internal">>
    /\ inj_input.last = "user_query"
    /\ "SYS" \notin Range(inj_input.query)
    /\ "SYS" \in Range(inj_packet.query)

----------------------------------------------------------------------------
(* Properties of the request handler *)

\* C38: one call of make_request sends at most max_retries + 1 = 3 requests;
\* the request after a 429 goes out with a token different from the one that
\* was answered 429; and a 429 response is returned to the caller only when
\* the token switch failed or the attempts are exhausted.
C38_SwitchesTokenOn429 ==
    /\ Len(rh_sent) <= max_retries + 1
    /\ \A i \in 1..(Len(rh_sent) - 1) :
           rh_sent[i].status = 429 => rh_sent[i + 1].token # rh_sent[i].token
    /\ (rh_result.kind = "returned" /\ rh_result.status = 429) =>
           \/ rh_result.switch = "failed"
           \/ Len(rh_sent) = max_retries + 1

\* C38 witness: a request was answered 429 with attempts left, the switch
\* succeeded and the request went out again
C38_Witness ==
    /\ Len(rh_sent) >= 2
    /\ rh_sent[1].status = 429
    /\ rh_sent[1].token # 0
    /\ rh_sent[2].status = 200
    /\ rh_result.kind = "returned"

----------------------------------------------------------------------------
(* Properties of the account rotation *)

C39_WitnessCycle ==
    /\ ac_last.kind = "returned" /\ ac_prev.kind = "returned"
    /\ ac_last.before = {} /\ ac_prev.before = {}
    /\ ac_prev.account = NumAccounts - 1
    /\ ac_last.account = 0

----------------------------------------------------------------------------
(* Properties of send_protobuf_to_warp_api *)

SpEnded == sp_pc \in {"returned", "raised"}

SpLastStatus == sp_statuses[Len(sp_statuses)].status

\* C40: a call whose last POST was answered 200 returns the parsed result
\* (the accumulated text with the conversation and task ids); the error
\* return is taken only for a status other than 200; and a second POST is
\* made only after a 429 on the first attempt.
C40_OkResponseIsParsed ==
    /\ (SpEnded /\ sp_statuses # <<>> /\ SpLastStatus = 200) =>
           (sp_pc = "returned" /\ sp_result.kind = "parsed")
    /\ sp_result.kind = "error" => sp_result.status # 200
    /\ Len(sp_statuses) >= 2 =>
           (Len(sp_statuses) = 2 /\ sp_statuses[1].status = 429)

\* C40 witness: the call ended and its last POST was answered 200
C40_Witness ==
    /\ SpEnded
    /\ sp_statuses # <<>>
    /\ SpLastStatus = 200

====
